---- MODULE Spec2Model ----
(***************************************************************************)
(* Hexaequo rules engine: HexGrid (hex coordinates, board queries, move    *)
(* generation) and GameState (resources, turn state machine, captures,     *)
(* win / draw evaluation).                                                 *)
(*                                                                         *)
(* Every method of the two classes is an operator from the engine state    *)
(* (a record with one field per object field) to the engine state after    *)
(* the call; the actions apply the three public commands to the variables. *)
(***************************************************************************)
EXTENDS Integers, Sequences, FiniteSets, TLC

VARIABLES grid, players, currentPlayer, selectedAction, selectedHex,
          validMoves, gameOver, winner, message, canContinueJumping,
          lastJumpedPiece, history, positionCounts, pc,
          modelLoader, requests, onCompleteCalls

vars == << grid, players, currentPlayer, selectedAction, selectedHex,
           validMoves, gameOver, winner, message, canContinueJumping,
           lastJumpedPiece, history, positionCounts, pc,
           modelLoader, requests, onCompleteCalls >>

\* The ModelLoader object (its models, totalModels and loadedModels), the
\* loads handed to the GLTFLoader that have not settled yet, and the number
\* of times the completion callback has been invoked.
loaderVars == << modelLoader, requests, onCompleteCalls >>

(***************************************************************************)
(* Bounds of the exploration.                                              *)
(***************************************************************************)
\* Turns explored from the start of a game (history holds the initial
\* position plus one entry per completed turn).
MaxHistory == 4
\* Turns explored beyond the position a replayed game ends in.
MaxTurns == 2

(***************************************************************************)
(* Values.  JavaScript null / undefined are modelled by distinguished      *)
(* values of the same shape as the values they stand in for.               *)
(***************************************************************************)
Colors == {"black", "white"}
Actions == {"placeTile", "placeDisc", "placeRing", "movePiece"}

\* selectedAction = null, winner = null
NoAction == "none"
NoWinner == "none"
\* selectedHex = null, lastJumpedPiece = null
NoHex == << >>

\* A cell object created without a piece property ({type, color}).
NoPieceKey == [type |-> "undefined", color |-> "none"]
\* A cell object whose piece property was assigned null.
NullPiece == [type |-> "null", color |-> "none"]
Piece(t, c) == [type |-> t, color |-> c]
\* JavaScript truthiness of cell.piece
HasPiece(cell) == cell.piece.type \in {"disc", "ring"}

(***************************************************************************)
(* Hex                                                                     *)
(***************************************************************************)
Hex(q, r) == << q, r >>
Abs(x) == IF x < 0 THEN -x ELSE x
HexS(h) == -h[1] - h[2]
HexAdd(a, b) == << a[1] + b[1], a[2] + b[2] >>
HexSubtract(a, b) == << a[1] - b[1], a[2] - b[2] >>
\* Math.floor of a half-integer sum: \div floors for a positive divisor
HexLength(h) == (Abs(h[1]) + Abs(h[2]) + Abs(HexS(h))) \div 2
HexDistance(a, b) == HexLength(HexSubtract(a, b))
\* Math.round(n / d) for d > 0: the nearest integer, halves towards +Infinity
MathRoundDiv(n, d) == (2 * n + d) \div (2 * d)

HEX_DIRECTIONS ==
    << Hex(1, 0), Hex(1, -1), Hex(0, -1), Hex(-1, 0), Hex(-1, 1), Hex(0, 1) >>

(***************************************************************************)
(* HexGrid.  g is the grid object: cells (the Map, as a function from the  *)
(* coordinates present to their cell objects) and the camera bounds.       *)
(***************************************************************************)
Min2(a, b) == IF a < b THEN a ELSE b
Max2(a, b) == IF a > b THEN a ELSE b

hasCell(g, hex) == hex \in DOMAIN g.cells

\* getCell returns null when absent; callers test hasCell before reading.
getCell(g, hex) == g.cells[hex]

setCell(g, hex, data) ==
    [ cells |-> [h \in (DOMAIN g.cells) \cup {hex} |->
                     IF h = hex THEN data ELSE g.cells[h]],
      minQ |-> Min2(g.minQ, hex[1]), maxQ |-> Max2(g.maxQ, hex[1]),
      minR |-> Min2(g.minR, hex[2]), maxR |-> Max2(g.maxR, hex[2]) ]

getAllCells(g) == DOMAIN g.cells

getNeighborHexes(hex) == { HexAdd(hex, HEX_DIRECTIONS[i]) : i \in 1..6 }

GridInitializeGame ==
    LET g0 == [cells |-> << >>, minQ |-> 0, maxQ |-> 0, minR |-> 0, maxR |-> 0]
        g1 == setCell(g0, Hex(0, 0), [color |-> "black", piece |-> NoPieceKey])
        g2 == setCell(g1, Hex(1, 0), [color |-> "white", piece |-> NoPieceKey])
        g3 == setCell(g2, Hex(0, 1), [color |-> "white", piece |-> NoPieceKey])
        g4 == setCell(g3, Hex(1, -1), [color |-> "black", piece |-> NoPieceKey])
        g5 == setCell(g4, Hex(1, -1),
                      [color |-> "black", piece |-> Piece("disc", "black")])
    IN  setCell(g5, Hex(0, 1),
                [color |-> "white", piece |-> Piece("disc", "white")])

\* A faulty isValidTilePlacement: one neighbouring tile is enough.
isValidTilePlacementOneNeighbor(g, hex) ==
    IF hasCell(g, hex) THEN FALSE
    ELSE Cardinality({ n \in getNeighborHexes(hex) : hasCell(g, n) }) >= 1

isValidTilePlacement(g, hex) ==
    IF hasCell(g, hex) THEN FALSE
    ELSE Cardinality({ n \in getNeighborHexes(hex) : hasCell(g, n) }) >= 2

\* Hex.hash and Hex.fromHash: the string "q,r" of the two decimal numerals
\* is kept as the pair of the numbers the numerals denote, and fromHash
\* builds the hex of the two numbers it reads back.
HexHash(hex) == << hex[1], hex[2] >>
HexFromHash(hash) == Hex(hash[1], hash[2])

\* The one value of an expression, computed once and then named: the
\* operators below take their arguments through it.
TheValue(singleton) == CHOOSE v \in singleton : TRUE

\* The elements of a list at the positions in kept, in the order of the
\* list.
Subsequence(list, kept) ==
    TheValue({ [ i \in 1..Cardinality(K) |->
                   L[CHOOSE k \in K : Cardinality({ j \in K : j <= k }) = i] ] :
               K \in {kept}, L \in {list} })

\* The hexes of getAllCells() as a list.  The Map lists its keys in the
\* order of their insertion, which the model of cells does not keep; they
\* are listed by coordinate.
ExistingHexes(g) ==
    [ i \in 1..Cardinality(getAllCells(g)) |->
        HexFromHash(
            CHOOSE h \in getAllCells(g) :
                Cardinality({ k \in getAllCells(g) :
                                \/ k[1] < h[1]
                                \/ (k[1] = h[1] /\ k[2] <= h[2]) }) = i) ]

\* The hashes passed to allNeighbors.add by the two nested forEach loops of
\* getValidTilePlacements, in the order of the calls: call k is for
\* direction ((k - 1) mod 6) + 1 of existing hex ((k - 1) div 6) + 1, and
\* is left out (NoHex) when the neighbour is a cell of the grid.
NeighborsAdded(g, existingHexes) ==
    TheValue({ [ k \in 1..(6 * Len(hexes)) |->
                   LET n == HexAdd(hexes[((k - 1) \div 6) + 1],
                                   HEX_DIRECTIONS[((k - 1) % 6) + 1])
                   IN  IF ~hasCell(g, n) THEN HexHash(n) ELSE NoHex ] :
               hexes \in {existingHexes} })

\* Array.from(allNeighbors): a Set lists its values in the order of their
\* insertion, and add leaves the Set alone when it has the value already.
AllNeighbors(added) ==
    TheValue({ Subsequence(calls, { k \in DOMAIN calls :
                                      /\ calls[k] # NoHex
                                      /\ \A j \in 1..(k - 1) : calls[j] # calls[k] }) :
               calls \in {added} })

\* .map(Hex.fromHash).filter(hex => this.isValidTilePlacement(hex))
FilterValidTilePlacements(g, hashes) ==
    TheValue({ Subsequence([ i \in DOMAIN list |-> HexFromHash(list[i]) ],
                           { i \in DOMAIN list :
                               isValidTilePlacement(g, HexFromHash(list[i])) }) :
               list \in {hashes} })

\* getValidTilePlacements(color) as the array it returns.
getValidTilePlacementsArray(g, color) ==
    FilterValidTilePlacements(
        g, AllNeighbors(NeighborsAdded(g, ExistingHexes(g))))

\* A faulty getValidTilePlacements: the neighbours are not filtered.
getValidTilePlacementsUnfiltered(g, color) ==
    { n \in UNION { getNeighborHexes(h) : h \in getAllCells(g) } :
        ~hasCell(g, n) }

getValidTilePlacements(g, color) ==
    LET allNeighbors ==
            { n \in UNION { getNeighborHexes(h) : h \in getAllCells(g) } :
                ~hasCell(g, n) }
    IN  { hex \in allNeighbors : isValidTilePlacement(g, hex) }

isValidPiecePlacement(g, hex, pieceColor) ==
    IF ~hasCell(g, hex) THEN FALSE
    ELSE IF getCell(g, hex).color # pieceColor THEN FALSE
    ELSE ~HasPiece(getCell(g, hex))

\* A faulty getValidPiecePlacements: every empty tile, of either colour.
getValidPiecePlacementsAnyColor(g, pieceColor) ==
    { hex \in getAllCells(g) : ~HasPiece(getCell(g, hex)) }

getValidPiecePlacements(g, pieceColor) ==
    { hex \in getAllCells(g) :
        getCell(g, hex).color = pieceColor /\ ~HasPiece(getCell(g, hex)) }

(***************************************************************************)
(* getJumpedHexes: the walk from fromHex by the rounded direction until    *)
(* toHex is met.  A walk that reaches toHex does so after at most          *)
(* distance steps (every non-zero rounded direction has length >= 1), so   *)
(* a walk of distance steps that has not met toHex never will: the while   *)
(* loop does not exit (reached = FALSE).                                   *)
(***************************************************************************)
RECURSIVE JumpWalk(_, _, _, _, _)
JumpWalk(currentHex, toHex, direction, jumpedHexes, steps) ==
    IF currentHex = toHex THEN [reached |-> TRUE, hexes |-> jumpedHexes]
    ELSE IF steps = 0 THEN [reached |-> FALSE, hexes |-> jumpedHexes]
    ELSE LET nextHex == HexAdd(currentHex, direction)
         IN  JumpWalk(nextHex, toHex, direction,
                      IF nextHex # toHex THEN Append(jumpedHexes, nextHex)
                                         ELSE jumpedHexes,
                      steps - 1)

getJumpedHexes(fromHex, toHex) ==
    LET vector == HexSubtract(toHex, fromHex)
        distance == HexDistance(fromHex, toHex)
        dirQ == MathRoundDiv(vector[1], distance)
        dirR == MathRoundDiv(vector[2], distance)
        direction == Hex(dirQ, dirR)
    IN  JumpWalk(fromHex, toHex, direction, << >>, distance)

(***************************************************************************)
(* _findJumpMoves: depth-first search over the six directions in order,    *)
(* sharing visited and validMoves between the recursive calls.  acc is     *)
(* the pair of sets; the result is the pair after directions i..6.         *)
(***************************************************************************)
RECURSIVE findJumpMovesFrom(_, _, _, _)
findJumpMovesFrom(g, hex, i, acc) ==
    IF i > 6 THEN acc
    ELSE LET dir == HEX_DIRECTIONS[i]
             jumpedHex == HexAdd(hex, dir)
             landingHex == HexAdd(jumpedHex, dir)
             canJump ==
                 /\ hasCell(g, jumpedHex)
                 /\ HasPiece(getCell(g, jumpedHex))
                 /\ hasCell(g, landingHex)
                 /\ ~HasPiece(getCell(g, landingHex))
                 /\ landingHex \notin acc.visited
         IN  IF canJump
             THEN findJumpMovesFrom(g, hex, i + 1,
                      findJumpMovesFrom(g, landingHex, 1,
                          [visited |-> acc.visited \cup {landingHex},
                           validMoves |-> acc.validMoves \cup {landingHex}]))
             ELSE findJumpMovesFrom(g, hex, i + 1, acc)

\* A faulty _findJumpMoves: the landing hexes of single jumps only, the
\* search does not go on from where a jump lands.
findJumpMovesOnce(g, hex, visited, moves) ==
    LET landings ==
            { landingHex \in { HexAdd(HexAdd(hex, HEX_DIRECTIONS[i]),
                                      HEX_DIRECTIONS[i]) : i \in 1..6 } :
                /\ \E i \in 1..6 :
                      /\ landingHex = HexAdd(HexAdd(hex, HEX_DIRECTIONS[i]),
                                             HEX_DIRECTIONS[i])
                      /\ hasCell(g, HexAdd(hex, HEX_DIRECTIONS[i]))
                      /\ HasPiece(getCell(g, HexAdd(hex, HEX_DIRECTIONS[i])))
                /\ hasCell(g, landingHex)
                /\ ~HasPiece(getCell(g, landingHex))
                /\ landingHex \notin visited }
    IN  [visited |-> visited \cup landings, validMoves |-> moves \cup landings]

findJumpMoves(g, hex, visited, moves) ==
    findJumpMovesFrom(g, hex, 1, [visited |-> visited, validMoves |-> moves])

getValidDiscMoves(g, hex) ==
    IF ~hasCell(g, hex) THEN {}
    ELSE IF getCell(g, hex).piece.type # "disc" THEN {}
    ELSE LET simple == { n \in getNeighborHexes(hex) :
                           hasCell(g, n) /\ ~HasPiece(getCell(g, n)) }
         IN  findJumpMoves(g, hex, {hex}, simple).validMoves

\* A faulty getValidRingMoves: a ring may land on any piece, also on one of
\* its own colour.
getValidRingMovesOntoAny(g, hex) ==
    IF ~hasCell(g, hex) THEN {}
    ELSE IF getCell(g, hex).piece.type # "ring" THEN {}
    ELSE { landingHex \in
             { HexAdd(HexAdd(hex, HEX_DIRECTIONS[i]), HEX_DIRECTIONS[i]) :
                 i \in 1..6 } :
             hasCell(g, landingHex) }

getValidRingMoves(g, hex) ==
    IF ~hasCell(g, hex) THEN {}
    ELSE IF getCell(g, hex).piece.type # "ring" THEN {}
    ELSE LET pieceColor == getCell(g, hex).piece.color
         IN  { landingHex \in
                 { HexAdd(HexAdd(hex, HEX_DIRECTIONS[i]), HEX_DIRECTIONS[i]) :
                     i \in 1..6 } :
                 /\ hasCell(g, landingHex)
                 /\ \/ ~HasPiece(getCell(g, landingHex))
                    \/ getCell(g, landingHex).piece.color # pieceColor }

(***************************************************************************)
(* GameState.  s is the engine object, one field per field of the class;   *)
(* pc is the position of control: "ready" between commands, or the loop a  *)
(* command is still executing.                                             *)
(*                                                                         *)
(* message holds the template of the status text.  A history entry shares  *)
(* its cell objects with the live board (Array.from(cells.entries()) is a  *)
(* shallow copy), so what an entry owns is the coordinates present when    *)
(* it was pushed, the player to move and a deep copy of players.           *)
(***************************************************************************)
Opponent(color) == IF color = "black" THEN "white" ELSE "black"

getOpponent(s) == Opponent(s.currentPlayer)

endGame(s, w, msg) ==
    [s EXCEPT !.gameOver = TRUE, !.winner = w, !.message = msg]

\* JSON.stringify of the entries sorted by coordinate and the player to
\* move: equal strings iff the same coordinates carry the same colour and
\* the same piece property (absent, null, or a piece) and the player agrees.
getPositionKey(s) ==
    [cells |-> s.grid.cells, currentPlayer |-> s.currentPlayer]

\* A faulty saveToHistory: the position is counted, but no entry is pushed
\* on the history.
saveToHistoryCountsOnly(s) ==
    LET positionKey == getPositionKey(s)
        count == IF positionKey \in DOMAIN s.positionCounts
                 THEN s.positionCounts[positionKey] ELSE 0
        s1 == [s EXCEPT
                 !.positionCounts =
                     [k \in (DOMAIN s.positionCounts) \cup {positionKey} |->
                         IF k = positionKey THEN count + 1
                         ELSE s.positionCounts[k]]]
    IN  IF count + 1 >= 3 THEN endGame(s1, NoWinner, "draw: threefold repetition")
        ELSE s1

saveToHistory(s) ==
    LET state == [grid |-> DOMAIN s.grid.cells,
                  currentPlayer |-> s.currentPlayer,
                  players |-> s.players]
        positionKey == getPositionKey(s)
        count == IF positionKey \in DOMAIN s.positionCounts
                 THEN s.positionCounts[positionKey] ELSE 0
        s1 == [s EXCEPT
                 !.history = Append(s.history, state),
                 !.positionCounts =
                     [k \in (DOMAIN s.positionCounts) \cup {positionKey} |->
                         IF k = positionKey THEN count + 1
                         ELSE s.positionCounts[k]]]
    IN  IF count + 1 >= 3 THEN endGame(s1, NoWinner, "draw: threefold repetition")
        ELSE s1

hasValidMoves(s) ==
    LET me == s.players[s.currentPlayer]
    IN  \/ /\ me.tiles.placed < me.tiles.total
           /\ getValidTilePlacements(s.grid, s.currentPlayer) # {}
        \/ /\ me.discs.placed < me.discs.total
           /\ getValidPiecePlacements(s.grid, s.currentPlayer) # {}
        \/ /\ me.rings.placed < me.rings.total
           /\ me.discs.captured > 0
           /\ getValidPiecePlacements(s.grid, s.currentPlayer) # {}
        \/ \E hex \in getAllCells(s.grid) :
              LET data == getCell(s.grid, hex)
              IN  /\ HasPiece(data)
                  /\ data.piece.color = s.currentPlayer
                  /\ IF data.piece.type = "disc"
                     THEN getValidDiscMoves(s.grid, hex) # {}
                     ELSE getValidRingMoves(s.grid, hex) # {}

switchPlayer(s) ==
    LET s1 == [s EXCEPT !.currentPlayer = Opponent(s.currentPlayer),
                        !.message = "player's turn",
                        !.selectedAction = NoAction,
                        !.selectedHex = NoHex,
                        !.validMoves = {}]
    IN  IF ~hasValidMoves(s1)
        THEN endGame(s1, getOpponent(s1), "win: opponent has no valid moves")
        ELSE s1

\* A faulty checkWinConditions: the disc total is not looked at.
checkWinConditionsSkipsDiscs(s) ==
    LET opponent == getOpponent(s)
        opponentHasPieces ==
            \E hex \in getAllCells(s.grid) :
                /\ HasPiece(getCell(s.grid, hex))
                /\ getCell(s.grid, hex).piece.color = opponent
    IN  IF s.players[opponent].rings.total <= 0
        THEN endGame(s, s.currentPlayer, "win: all rings captured")
        ELSE IF ~opponentHasPieces
        THEN endGame(s, s.currentPlayer, "win: no pieces on the board")
        ELSE s

checkWinConditions(s) ==
    LET opponent == getOpponent(s)
        opponentHasPieces ==
            \E hex \in getAllCells(s.grid) :
                /\ HasPiece(getCell(s.grid, hex))
                /\ getCell(s.grid, hex).piece.color = opponent
    IN  IF s.players[opponent].discs.total <= 0
        THEN endGame(s, s.currentPlayer, "win: all discs captured")
        ELSE IF s.players[opponent].rings.total <= 0
        THEN endGame(s, s.currentPlayer, "win: all rings captured")
        ELSE IF ~opponentHasPieces
        THEN endGame(s, s.currentPlayer, "win: no pieces on the board")
        ELSE s

\* if (!this.gameOver) this.switchPlayer();
switchUnlessOver(s) == IF ~s.gameOver THEN switchPlayer(s) ELSE s

\* saveToHistory(); checkWinConditions(); if (!gameOver) switchPlayer();
EndTurn(s) == switchUnlessOver(checkWinConditions(saveToHistory(s)))

\* A faulty selectAction: a rejected action stays selected.
selectActionKeepsRejected(s, action) ==
    LET me == s.players[s.currentPlayer]
        s0 == [s EXCEPT !.selectedAction = action,
                        !.selectedHex = NoHex,
                        !.validMoves = {}]
        rejected(msg) == [s0 EXCEPT !.message = msg]
        chosen(moves, msg) ==
            LET s1 == [s0 EXCEPT !.validMoves = moves, !.message = msg]
            IN  IF s1.validMoves = {} /\ s1.selectedAction # "movePiece"
                THEN [s1 EXCEPT !.message = "No valid positions",
                                !.selectedAction = NoAction]
                ELSE s1
    IN  IF s.gameOver THEN s
        ELSE CASE action = "placeTile" ->
                    IF me.tiles.placed >= me.tiles.total
                    THEN rejected("No more tiles available to place.")
                    ELSE chosen(getValidTilePlacements(s.grid, s.currentPlayer),
                                "Select a position to place a tile.")
               [] action = "placeDisc" ->
                    IF me.discs.placed >= me.discs.total
                    THEN rejected("No more discs available to place.")
                    ELSE chosen(getValidPiecePlacements(s.grid, s.currentPlayer),
                                "Select a tile to place a disc.")
               [] action = "placeRing" ->
                    IF me.rings.placed >= me.rings.total
                    THEN rejected("No more rings available to place.")
                    ELSE IF me.discs.captured <= 0
                    THEN rejected("You need captured discs to place a ring.")
                    ELSE chosen(getValidPiecePlacements(s.grid, s.currentPlayer),
                                "Select a tile to place a ring.")
               [] action = "movePiece" ->
                    chosen({}, "Select a piece to move.")

\* A faulty selectAction: a placement with no legal destination stays
\* selected.
selectActionKeepsEmpty(s, action) ==
    LET me == s.players[s.currentPlayer]
        s0 == [s EXCEPT !.selectedAction = action,
                        !.selectedHex = NoHex,
                        !.validMoves = {}]
        rejected(msg) == [s0 EXCEPT !.message = msg, !.selectedAction = NoAction]
        chosen(moves, msg) == [s0 EXCEPT !.validMoves = moves, !.message = msg]
    IN  IF s.gameOver THEN s
        ELSE CASE action = "placeTile" ->
                    IF me.tiles.placed >= me.tiles.total
                    THEN rejected("No more tiles available to place.")
                    ELSE chosen(getValidTilePlacements(s.grid, s.currentPlayer),
                                "Select a position to place a tile.")
               [] action = "placeDisc" ->
                    IF me.discs.placed >= me.discs.total
                    THEN rejected("No more discs available to place.")
                    ELSE chosen(getValidPiecePlacements(s.grid, s.currentPlayer),
                                "Select a tile to place a disc.")
               [] action = "placeRing" ->
                    IF me.rings.placed >= me.rings.total
                    THEN rejected("No more rings available to place.")
                    ELSE IF me.discs.captured <= 0
                    THEN rejected("You need captured discs to place a ring.")
                    ELSE chosen(getValidPiecePlacements(s.grid, s.currentPlayer),
                                "Select a tile to place a ring.")
               [] action = "movePiece" ->
                    chosen({}, "Select a piece to move.")

selectAction(s, action) ==
    LET me == s.players[s.currentPlayer]
        s0 == [s EXCEPT !.selectedAction = action,
                        !.selectedHex = NoHex,
                        !.validMoves = {}]
        rejected(msg) == [s0 EXCEPT !.message = msg, !.selectedAction = NoAction]
        chosen(moves, msg) ==
            LET s1 == [s0 EXCEPT !.validMoves = moves, !.message = msg]
            IN  IF s1.validMoves = {} /\ s1.selectedAction # "movePiece"
                THEN [s1 EXCEPT !.message = "No valid positions",
                                !.selectedAction = NoAction]
                ELSE s1
    IN  IF s.gameOver THEN s
        ELSE CASE action = "placeTile" ->
                    IF me.tiles.placed >= me.tiles.total
                    THEN rejected("No more tiles available to place.")
                    ELSE chosen(getValidTilePlacements(s.grid, s.currentPlayer),
                                "Select a position to place a tile.")
               [] action = "placeDisc" ->
                    IF me.discs.placed >= me.discs.total
                    THEN rejected("No more discs available to place.")
                    ELSE chosen(getValidPiecePlacements(s.grid, s.currentPlayer),
                                "Select a tile to place a disc.")
               [] action = "placeRing" ->
                    IF me.rings.placed >= me.rings.total
                    THEN rejected("No more rings available to place.")
                    ELSE IF me.discs.captured <= 0
                    THEN rejected("You need captured discs to place a ring.")
                    ELSE chosen(getValidPiecePlacements(s.grid, s.currentPlayer),
                                "Select a tile to place a ring.")
               [] action = "movePiece" ->
                    chosen({}, "Select a piece to move.")

\* A faulty placeTile: the tile gets the colour of the opponent.
placeTileOpponentColor(s, hex) ==
    [s EXCEPT
       !.grid = setCell(s.grid, hex,
                        [color |-> Opponent(s.currentPlayer),
                         piece |-> NoPieceKey]),
       !.players[s.currentPlayer].tiles.placed = @ + 1,
       !.message = "placed a tile"]

\* A faulty placeTile: the tile is put two steps away from the coordinate
\* that was clicked.
placeTileMisplaced(s, hex) ==
    [s EXCEPT
       !.grid = setCell(s.grid, HexAdd(hex, Hex(-2, 0)),
                        [color |-> s.currentPlayer, piece |-> NoPieceKey]),
       !.players[s.currentPlayer].tiles.placed = @ + 1,
       !.message = "placed a tile"]

placeTile(s, hex) ==
    [s EXCEPT
       !.grid = setCell(s.grid, hex,
                        [color |-> s.currentPlayer, piece |-> NoPieceKey]),
       !.players[s.currentPlayer].tiles.placed = @ + 1,
       !.message = "placed a tile"]

placeDisc(s, hex) ==
    [s EXCEPT
       !.grid = setCell(s.grid, hex,
                        [getCell(s.grid, hex) EXCEPT
                           !.piece = Piece("disc", s.currentPlayer)]),
       !.players[s.currentPlayer].discs.placed = @ + 1,
       !.message = "placed a disc"]

\* A faulty placeRing: two discs go back to the opponent's pool.
placeRingReturnsTwo(s, hex) ==
    LET s1 == [s EXCEPT
                 !.grid = setCell(s.grid, hex,
                                  [getCell(s.grid, hex) EXCEPT
                                     !.piece = Piece("ring", s.currentPlayer)]),
                 !.players[s.currentPlayer].rings.placed = @ + 1,
                 !.players[s.currentPlayer].discs.captured = @ - 1]
    IN  [s1 EXCEPT
           !.players[getOpponent(s)].discs.total = @ + 2,
           !.message = "placed a ring and returned a captured disc"]

placeRing(s, hex) ==
    LET s1 == [s EXCEPT
                 !.grid = setCell(s.grid, hex,
                                  [getCell(s.grid, hex) EXCEPT
                                     !.piece = Piece("ring", s.currentPlayer)]),
                 !.players[s.currentPlayer].rings.placed = @ + 1,
                 !.players[s.currentPlayer].discs.captured = @ - 1]
    IN  [s1 EXCEPT
           !.players[getOpponent(s)].discs.total = @ + 1,
           !.message = "placed a ring and returned a captured disc"]

(***************************************************************************)
(* movePiece.  CaptureJumped is the forEach over the jumped hexes: acc is  *)
(* the engine state and the capturedPieces flag after the first i - 1.     *)
(***************************************************************************)
RECURSIVE CaptureJumped(_, _, _, _)
CaptureJumped(acc, jumpedHexes, i, pieceColor) ==
    IF i > Len(jumpedHexes) THEN acc
    ELSE LET s == acc.s
             jumpedHex == jumpedHexes[i]
             me == s.currentPlayer
             opp == getOpponent(s)
             captures ==
                 /\ hasCell(s.grid, jumpedHex)
                 /\ HasPiece(getCell(s.grid, jumpedHex))
                 /\ getCell(s.grid, jumpedHex).piece.color # pieceColor
             jumpedType == getCell(s.grid, jumpedHex).piece.type
             counted ==
                 IF jumpedType = "disc"
                 THEN [s EXCEPT !.players[me].discs.captured = @ + 1,
                                !.players[opp].discs.total = @ - 1]
                 ELSE [s EXCEPT !.players[me].rings.captured = @ + 1,
                                !.players[opp].rings.total = @ - 1]
             removed ==
                 [counted EXCEPT
                    !.grid = setCell(counted.grid, jumpedHex,
                                     [getCell(counted.grid, jumpedHex) EXCEPT
                                        !.piece = NullPiece])]
         IN  CaptureJumped(
                 IF captures THEN [s |-> removed, capturedPieces |-> TRUE]
                             ELSE acc,
                 jumpedHexes, i + 1, pieceColor)

\* A faulty jump branch: the captures are counted for the mover, and the
\* totals of the opponent stay as they were.
jumpCaptureKeepsTotal(s, fromHex, toHex) ==
    LET c == CaptureJumped([s |-> s, capturedPieces |-> FALSE],
                           getJumpedHexes(fromHex, toHex).hexes, 1,
                           getCell(s.grid, fromHex).piece.color)
    IN  [c EXCEPT
           !.s.players[getOpponent(s)].discs.total =
               s.players[getOpponent(s)].discs.total,
           !.s.players[getOpponent(s)].rings.total =
               s.players[getOpponent(s)].rings.total]

\* movePiece, the jump branch: the pieces on the jumped hexes are captured.
\* c pairs the engine state with the capturedPieces flag.
jumpCapture(s, fromHex, toHex) ==
    CaptureJumped([s |-> s, capturedPieces |-> FALSE],
                  getJumpedHexes(fromHex, toHex).hexes, 1,
                  getCell(s.grid, fromHex).piece.color)

jumpMessage(c) ==
    [c EXCEPT !.s.message = IF c.capturedPieces
                            THEN "captured pieces by jumping"
                            ELSE "jumped over pieces"]

\* A faulty ringCapture: the captured piece stays in its owner's pool.
ringCaptureKeepsTotal(s, toCell) ==
    LET me == s.currentPlayer
    IN  IF ~HasPiece(toCell)
        THEN [s EXCEPT !.message = "moved a piece"]
        ELSE IF toCell.piece.type = "disc"
        THEN [s EXCEPT !.players[me].discs.captured = @ + 1,
                       !.message = "captured a disc with a ring"]
        ELSE [s EXCEPT !.players[me].rings.captured = @ + 1,
                       !.message = "captured a ring with a ring"]

\* A faulty ringCapture: every captured piece is counted as a disc.
ringCaptureCountsDiscs(s, toCell) ==
    LET me == s.currentPlayer
        opp == getOpponent(s)
    IN  IF ~HasPiece(toCell)
        THEN [s EXCEPT !.message = "moved a piece"]
        ELSE [s EXCEPT !.players[me].discs.captured = @ + 1,
                       !.players[opp].discs.total = @ - 1,
                       !.message = "captured a disc with a ring"]

\* movePiece, a ring landing on an opponent piece, or a plain move.
ringCapture(s, toCell) ==
    LET me == s.currentPlayer
        opp == getOpponent(s)
    IN  IF ~HasPiece(toCell)
        THEN [s EXCEPT !.message = "moved a piece"]
        ELSE IF toCell.piece.type = "disc"
        THEN [s EXCEPT !.players[me].discs.captured = @ + 1,
                       !.players[opp].discs.total = @ - 1,
                       !.message = "captured a disc with a ring"]
        ELSE [s EXCEPT !.players[me].rings.captured = @ + 1,
                       !.players[opp].rings.total = @ - 1,
                       !.message = "captured a ring with a ring"]

\* A faulty relocate: the piece is put on the destination and is not taken
\* off the source.
relocateKeepsSource(c, fromCell, toCell, fromHex, toHex) ==
    [c EXCEPT
       !.s.grid = setCell(c.s.grid, toHex,
                          [toCell EXCEPT !.piece = fromCell.piece])]

\* movePiece: fromCell.piece = null; toCell.piece = piece;
relocate(c, fromCell, toCell, fromHex, toHex) ==
    [c EXCEPT
       !.s.grid = setCell(setCell(c.s.grid, fromHex,
                                  [fromCell EXCEPT !.piece = NullPiece]),
                          toHex, [toCell EXCEPT !.piece = fromCell.piece])]

\* A faulty concludeMove: the turn ends after every move, also when the
\* disc that captured can jump again.
concludeMoveEndsTurn(c, isDisc, toHex) ==
    EndTurn([c.s EXCEPT !.canContinueJumping = FALSE,
                        !.lastJumpedPiece = NoHex])

\* movePiece, after the move: the turn goes on when a disc has captured and
\* can jump again, and ends otherwise.
concludeMove(c, isDisc, toHex) ==
    IF /\ isDisc
       /\ c.capturedPieces
       /\ { move \in getValidDiscMoves(c.s.grid, toHex) :
              HexDistance(toHex, move) > 1 } # {}
    THEN [c.s EXCEPT !.canContinueJumping = TRUE,
                     !.lastJumpedPiece = toHex,
                     !.message = "Additional jumps available."]
    ELSE EndTurn([c.s EXCEPT !.canContinueJumping = FALSE,
                             !.lastJumpedPiece = NoHex])

movePiece(s, fromHex, toHex) ==
    LET fromCell == getCell(s.grid, fromHex)
        toCell == getCell(s.grid, toHex)
        isDisc == fromCell.piece.type = "disc"
        isJump == isDisc /\ HexDistance(fromHex, toHex) > 1
    IN  IF isJump /\ ~getJumpedHexes(fromHex, toHex).reached
        THEN [s EXCEPT !.pc = "getJumpedHexes"]
        ELSE concludeMove(
                 relocate(IF isJump
                          THEN jumpMessage(jumpCapture(s, fromHex, toHex))
                          ELSE [s |-> IF isDisc
                                      THEN [s EXCEPT !.message = "moved a piece"]
                                      ELSE ringCapture(s, toCell),
                                capturedPieces |-> FALSE],
                          fromCell, toCell, fromHex, toHex),
                 isDisc, toHex)

\* A faulty source selection: during a continuation a click on another
\* piece of the player selects that piece instead of ending the turn.
selectSourceKeepsTurn(s, hex) ==
    LET cell == getCell(s.grid, hex)
        notMine == \/ ~hasCell(s.grid, hex)
                   \/ ~HasPiece(cell)
                   \/ cell.piece.color # s.currentPlayer
        sel == [s EXCEPT !.selectedHex = hex]
        moves ==
            IF cell.piece.type = "disc"
            THEN getValidDiscMoves(s.grid, hex)
            ELSE getValidRingMoves(s.grid, hex)
    IN  IF notMine
        THEN [s EXCEPT !.message = "Select one of your pieces to move."]
        ELSE IF moves = {}
        THEN [sel EXCEPT !.validMoves = moves,
                         !.message = "This piece has no valid moves.",
                         !.selectedHex = NoHex]
        ELSE [sel EXCEPT !.validMoves = moves,
                         !.message = "Select a destination for the piece."]

\* selectHex, selectedAction = 'movePiece' and no piece selected yet: the
\* click names the piece to move.
selectSource(s, hex) ==
    LET cell == getCell(s.grid, hex)
        notMine == \/ ~hasCell(s.grid, hex)
                   \/ ~HasPiece(cell)
                   \/ cell.piece.color # s.currentPlayer
        sel == [s EXCEPT !.selectedHex = hex]
        moves ==
            IF cell.piece.type = "disc"
            THEN IF s.canContinueJumping
                 THEN { move \in getValidDiscMoves(s.grid, hex) :
                          HexDistance(hex, move) > 1 }
                 ELSE getValidDiscMoves(s.grid, hex)
            ELSE getValidRingMoves(s.grid, hex)
    IN  IF notMine
        THEN [s EXCEPT !.message = "Select one of your pieces to move."]
        ELSE IF s.canContinueJumping /\ hex # s.lastJumpedPiece
        THEN EndTurn([s EXCEPT !.canContinueJumping = FALSE,
                               !.lastJumpedPiece = NoHex])
        ELSE IF moves = {}
        THEN [sel EXCEPT !.validMoves = moves,
                         !.message = "This piece has no valid moves.",
                         !.selectedHex = NoHex]
        ELSE [sel EXCEPT !.validMoves = moves,
                         !.message = "Select a destination for the piece."]

\* selectHex, a placement: the switch on selectedAction.
placePiece(s, hex) ==
    CASE s.selectedAction = "placeTile" -> placeTile(s, hex)
      [] s.selectedAction = "placeDisc" -> placeDisc(s, hex)
      [] s.selectedAction = "placeRing" -> placeRing(s, hex)

\* selectHex: the selected action applied to the clicked destination.
applyAction(s, hex) ==
    IF s.selectedAction = "movePiece"
    THEN movePiece(s, s.selectedHex, hex)
    ELSE EndTurn(placePiece(s, hex))

\* selectHex, after the action: the selection is reset, or set up for the
\* next jump of the same disc.
resetSelection(done, hex) ==
    IF done.pc # "ready" THEN done
    ELSE IF ~done.canContinueJumping
    THEN [done EXCEPT !.selectedHex = NoHex,
                      !.selectedAction = NoAction,
                      !.validMoves = {}]
    ELSE [done EXCEPT
            !.selectedHex = hex,
            !.validMoves =
                { move \in getValidDiscMoves(done.grid, hex) :
                    HexDistance(hex, move) > 1 }]

\* selectHex, a legal destination on a board that has lost cells (getCell
\* returns null for the coordinate, or the cell of the selected piece holds
\* none): the TypeError of the first property read on null or undefined
\* leaves selectHex with the engine as it is by then.  placeDisc and
\* placeRing read the destination cell first; movePiece reads the source
\* cell's piece first, for a ring the destination cell next, and for a disc
\* the destination cell after the captures, the message and
\* fromCell.piece = null.
typeError(s, hex) ==
    LET fromHex == s.selectedHex
        isDisc == getCell(s.grid, fromHex).piece.type = "disc"
        isJump == isDisc /\ HexDistance(fromHex, hex) > 1
        returns == [thrown |-> FALSE, s |-> s]
    IN  IF s.selectedAction = "placeTile" THEN returns
        ELSE IF s.selectedAction # "movePiece"
        THEN [thrown |-> ~hasCell(s.grid, hex), s |-> s]
        ELSE IF ~hasCell(s.grid, fromHex) THEN [thrown |-> TRUE, s |-> s]
        ELSE IF ~HasPiece(getCell(s.grid, fromHex))
        THEN [thrown |-> TRUE, s |-> s]
        ELSE IF hasCell(s.grid, hex) THEN returns
        ELSE IF ~isDisc THEN [thrown |-> TRUE, s |-> s]
        ELSE IF isJump /\ ~getJumpedHexes(fromHex, hex).reached THEN returns
        ELSE [thrown |-> TRUE,
              s |-> [(IF isJump
                      THEN jumpMessage(jumpCapture(s, fromHex, hex)).s
                      ELSE [s EXCEPT !.message = "moved a piece"])
                       EXCEPT !.grid.cells[fromHex].piece = NullPiece]]

\* selectHex from "Execute the action" on.
executeAction(error, s, hex) ==
    IF error.thrown THEN error.s
    ELSE resetSelection(applyAction(s, hex), hex)

\* A faulty selectHex: a click on an illegal destination drops the selection.
selectHexDropsSelection(s, hex) ==
    IF s.gameOver THEN s
    ELSE IF s.selectedAction = NoAction
    THEN [s EXCEPT !.message = "Select an action first."]
    ELSE IF s.selectedAction = "movePiece" /\ s.selectedHex = NoHex
    THEN selectSource(s, hex)
    ELSE IF hex \notin s.validMoves
    THEN [s EXCEPT !.message = "Invalid move. Try again.",
                   !.selectedHex = NoHex,
                   !.validMoves = {}]
    ELSE executeAction(typeError(s, hex), s, hex)

\* A faulty selectHex: a finished game is not looked at.
selectHexAfterGameOver(s, hex) ==
    IF s.selectedAction = NoAction
    THEN [s EXCEPT !.message = "Select an action first."]
    ELSE IF s.selectedAction = "movePiece" /\ s.selectedHex = NoHex
    THEN selectSource(s, hex)
    ELSE IF hex \notin s.validMoves
    THEN [s EXCEPT !.message = "Invalid move. Try again."]
    ELSE executeAction(typeError(s, hex), s, hex)

selectHex(s, hex) ==
    IF s.gameOver THEN s
    ELSE IF s.selectedAction = NoAction
    THEN [s EXCEPT !.message = "Select an action first."]
    ELSE IF s.selectedAction = "movePiece" /\ s.selectedHex = NoHex
    THEN selectSource(s, hex)
    ELSE IF hex \notin s.validMoves
    THEN [s EXCEPT !.message = "Invalid move. Try again."]
    ELSE executeAction(typeError(s, hex), s, hex)

\* The fields the constructor assigns before it calls initializeGame().
Constructed ==
    [ grid |-> [cells |-> << >>, minQ |-> 0, maxQ |-> 0, minR |-> 0, maxR |-> 0],
      players |-> [c \in Colors |->
                     [tiles |-> [total |-> 9, placed |-> 0],
                      discs |-> [total |-> 6, placed |-> 0, captured |-> 0],
                      rings |-> [total |-> 3, placed |-> 0, captured |-> 0]]],
      currentPlayer |-> "black",
      selectedAction |-> NoAction,
      selectedHex |-> NoHex,
      validMoves |-> {},
      gameOver |-> FALSE,
      winner |-> NoWinner,
      message |-> "Game started. Black player's turn.",
      canContinueJumping |-> FALSE,
      lastJumpedPiece |-> NoHex,
      history |-> << >>,
      positionCounts |-> << >>,
      pc |-> "ready" ]

\* A faulty initializeGame: the player data are not reset.
initializeGameKeepsPlayers(s) ==
    saveToHistory(
        [s EXCEPT
           !.grid = GridInitializeGame,
           !.currentPlayer = "black",
           !.selectedAction = NoAction,
           !.selectedHex = NoHex,
           !.validMoves = {},
           !.gameOver = FALSE,
           !.winner = NoWinner,
           !.message = "Game started. Black player's turn.",
           !.history = << >>,
           !.positionCounts = << >>])

initializeGame(s) ==
    saveToHistory(
        [s EXCEPT
           !.grid = GridInitializeGame,
           !.players = [c \in Colors |->
                          [tiles |-> [total |-> 9, placed |-> 2],
                           discs |-> [total |-> 6, placed |-> 1, captured |-> 0],
                           rings |-> [total |-> 3, placed |-> 0, captured |-> 0]]],
           !.currentPlayer = "black",
           !.selectedAction = NoAction,
           !.selectedHex = NoHex,
           !.validMoves = {},
           !.gameOver = FALSE,
           !.winner = NoWinner,
           !.message = "Game started. Black player's turn.",
           !.history = << >>,
           !.positionCounts = << >>])

\* new GameState()
NewGameState == initializeGame(Constructed)

(***************************************************************************)
(* Persistence: exportGame / importGame and saveGame / loadGame.           *)
(*                                                                         *)
(* A JSON text is modelled by what JSON.parse makes of it: parses says     *)
(* whether JSON.parse returns at all, has is the set of keys of the parsed *)
(* object, gridIsList whether the value under grid is an array, and grid   *)
(* its elements.  An element is a pair [hash, cellData] or a value that    *)
(* cannot be destructured (a number).  The hash string "q,r" of a          *)
(* coordinate carries its two integers, as the keys of cells do.           *)
(***************************************************************************)
SaveKeys ==
    {"grid", "players", "currentPlayer", "gameOver", "winner", "message"}

\* Stands for the IEEE Infinity in Math.min / Math.max: larger in magnitude
\* than every coordinate of the boards explored.
Infinity == 1000

\* new HexGrid()
NewHexGrid ==
    [cells |-> << >>, minQ |-> 0, maxQ |-> 0, minR |-> 0, maxR |-> 0]

Entry(hash, cellData) == [pair |-> TRUE, hash |-> hash, cell |-> cellData]

\* An element of the grid array that is not an array itself.
NotAPair ==
    [pair |-> FALSE, hash |-> NoHex,
     cell |-> [color |-> "none", piece |-> NoPieceKey]]

HexBefore(a, b) == a[1] < b[1] \/ (a[1] = b[1] /\ a[2] < b[2])

\* Array.from(cells.entries()).  The Map lists its entries in the order of
\* their insertion, which the model of cells does not keep; the entries are
\* listed by coordinate.  The order has no influence on what a list of
\* pairs is restored to.
RECURSIVE EntriesOf(_, _)
EntriesOf(cells, hexes) ==
    IF hexes = {} THEN << >>
    ELSE LET first == CHOOSE h \in hexes :
                          \A k \in hexes : h = k \/ HexBefore(h, k)
         IN  << Entry(first, cells[first]) >>
                 \o EntriesOf(cells, hexes \ {first})

\* A faulty exportGame: the winner is not written.
exportGameWithoutWinner(s) ==
    [ parses |-> TRUE,
      has |-> SaveKeys \ {"winner"},
      gridIsList |-> TRUE,
      grid |-> EntriesOf(s.grid.cells, DOMAIN s.grid.cells),
      players |-> s.players,
      currentPlayer |-> s.currentPlayer,
      gameOver |-> s.gameOver,
      winner |-> s.winner,
      message |-> s.message ]

\* JSON.stringify(exportData); timestamp and version are not read back.
exportGame(s) ==
    [ parses |-> TRUE,
      has |-> SaveKeys,
      gridIsList |-> TRUE,
      grid |-> EntriesOf(s.grid.cells, DOMAIN s.grid.cells),
      players |-> s.players,
      currentPlayer |-> s.currentPlayer,
      gameOver |-> s.gameOver,
      winner |-> s.winner,
      message |-> s.message ]

\* The item saveGame stores under the slot's key.
saveGame(s) ==
    [ parses |-> TRUE,
      has |-> SaveKeys,
      gridIsList |-> TRUE,
      grid |-> EntriesOf(s.grid.cells, DOMAIN s.grid.cells),
      players |-> s.players,
      currentPlayer |-> s.currentPlayer,
      gameOver |-> s.gameOver,
      winner |-> s.winner,
      message |-> s.message ]

\* data.grid.forEach(([hash, cellData]) => this.grid.cells.set(hash, cellData))
\* from element i on: acc is the grid so far and whether the callback threw.
RECURSIVE SetEntries(_, _, _)
SetEntries(acc, entries, i) ==
    IF i > Len(entries) THEN acc
    ELSE IF ~entries[i].pair THEN [acc EXCEPT !.thrown = TRUE]
    ELSE SetEntries(
             [acc EXCEPT !.g.cells =
                 [h \in (DOMAIN acc.g.cells) \cup {entries[i].hash} |->
                     IF h = entries[i].hash THEN entries[i].cell
                     ELSE acc.g.cells[h]]],
             entries, i + 1)

\* for (const [hash, _] of data.grid) { ... Math.min / Math.max ... }
RECURSIVE RecalculateBounds(_, _, _)
RecalculateBounds(g, entries, i) ==
    IF i > Len(entries) THEN g
    ELSE RecalculateBounds(
             [g EXCEPT !.minQ = Min2(@, entries[i].hash[1]),
                       !.maxQ = Max2(@, entries[i].hash[1]),
                       !.minR = Min2(@, entries[i].hash[2]),
                       !.maxR = Max2(@, entries[i].hash[2])],
             entries, i + 1)

\* "Restore grid" and "Recalculate grid bounds": this.grid is replaced by
\* a new HexGrid before the first element of data.grid is looked at.  A
\* TypeError (data.grid has no forEach, an element is not iterable) leaves
\* the method through its catch block with the grid as it is by then.
restoreGrid(s, data) ==
    LET filled ==
            IF "grid" \in data.has /\ data.gridIsList
            THEN SetEntries([g |-> NewHexGrid, thrown |-> FALSE], data.grid, 1)
            ELSE [g |-> NewHexGrid, thrown |-> TRUE]
    IN  IF filled.thrown
        THEN [s |-> [s EXCEPT !.grid = filled.g], thrown |-> TRUE]
        ELSE [s |-> [s EXCEPT !.grid =
                        RecalculateBounds(
                            [filled.g EXCEPT !.minQ = Infinity,
                                             !.maxQ = -Infinity,
                                             !.minR = Infinity,
                                             !.maxR = -Infinity],
                            data.grid, 1)],
              thrown |-> FALSE]

\* A faulty restore: the history and the repetition counts of the game
\* that was on the board are kept.
restoreGameKeepsHistory(s, data, over, won, msg) ==
    saveToHistory(
        [s EXCEPT !.players = data.players,
                  !.currentPlayer = data.currentPlayer,
                  !.gameOver = over,
                  !.winner = won,
                  !.message = msg,
                  !.selectedAction = NoAction,
                  !.selectedHex = NoHex,
                  !.validMoves = {}])

\* "Restore player data" to the end of the try block.
restoreGame(s, data, over, won, msg) ==
    saveToHistory(
        [s EXCEPT !.players = data.players,
                  !.currentPlayer = data.currentPlayer,
                  !.gameOver = over,
                  !.winner = won,
                  !.message = msg,
                  !.selectedAction = NoAction,
                  !.selectedHex = NoHex,
                  !.validMoves = {},
                  !.history = << >>,
                  !.positionCounts = << >>])

\* importGame(jsonString): the engine state after the call and the value
\* returned.
importGame(s, data) ==
    IF ~data.parses THEN [s |-> s, returns |-> FALSE]
    ELSE IF {"grid", "players", "currentPlayer"} \ data.has # {}
    THEN [s |-> s, returns |-> FALSE]
    ELSE IF restoreGrid(s, data).thrown
    THEN [s |-> restoreGrid(s, data).s, returns |-> FALSE]
    ELSE [s |-> restoreGame(
                    restoreGrid(s, data).s, data,
                    IF "gameOver" \in data.has THEN data.gameOver ELSE FALSE,
                    IF "winner" \in data.has THEN data.winner ELSE NoWinner,
                    IF "message" \in data.has THEN data.message
                                              ELSE "Game imported."),
          returns |-> TRUE]

\* loadGame(slotName): item is what localStorage.getItem returns, found
\* FALSE for null.  The items looked at carry every key but, possibly, grid.
loadGame(s, item) ==
    IF ~item.found THEN [s |-> s, returns |-> FALSE]
    ELSE IF ~item.data.parses THEN [s |-> s, returns |-> FALSE]
    ELSE IF restoreGrid(s, item.data).thrown
    THEN [s |-> restoreGrid(s, item.data).s, returns |-> FALSE]
    ELSE [s |-> restoreGame(restoreGrid(s, item.data).s, item.data,
                            item.data.gameOver, item.data.winner,
                            item.data.message),
          returns |-> TRUE]

(***************************************************************************)
(* GameRules: the static predicates over a grid and an engine state.       *)
(***************************************************************************)
\* GameRules.isValidTilePlacement(grid, hex)
RulesIsValidTilePlacement(g, hex) ==
    IF hasCell(g, hex) THEN FALSE
    ELSE LET neighbors == getNeighborHexes(hex)
             existingNeighbors == { n \in neighbors : hasCell(g, n) }
         IN  Cardinality(existingNeighbors) >= 2

\* A faulty GameRules.checkWinCondition: the pieces on the board are not
\* looked at.
checkWinConditionSkipsBoard(s) ==
    LET blackPlayer == s.players.black
        whitePlayer == s.players.white
        won(w, msg) == [hasWon |-> TRUE, winner |-> w, message |-> msg]
    IN  IF blackPlayer.discs.total <= 0
        THEN won("white", "White wins by capturing all black discs!")
        ELSE IF whitePlayer.discs.total <= 0
        THEN won("black", "Black wins by capturing all white discs!")
        ELSE IF blackPlayer.rings.total <= 0
        THEN won("white", "White wins by capturing all black rings!")
        ELSE IF whitePlayer.rings.total <= 0
        THEN won("black", "Black wins by capturing all white rings!")
        ELSE [hasWon |-> FALSE, winner |-> NoWinner,
              message |-> "Game in progress."]

\* GameRules.checkWinCondition(gameState)
checkWinCondition(s) ==
    LET blackPlayer == s.players.black
        whitePlayer == s.players.white
        blackHasPieces ==
            \E hex \in getAllCells(s.grid) :
                /\ HasPiece(getCell(s.grid, hex))
                /\ getCell(s.grid, hex).piece.color = "black"
        whiteHasPieces ==
            \E hex \in getAllCells(s.grid) :
                /\ HasPiece(getCell(s.grid, hex))
                /\ getCell(s.grid, hex).piece.color = "white"
        won(w, msg) == [hasWon |-> TRUE, winner |-> w, message |-> msg]
    IN  IF blackPlayer.discs.total <= 0
        THEN won("white", "White wins by capturing all black discs!")
        ELSE IF whitePlayer.discs.total <= 0
        THEN won("black", "Black wins by capturing all white discs!")
        ELSE IF blackPlayer.rings.total <= 0
        THEN won("white", "White wins by capturing all black rings!")
        ELSE IF whitePlayer.rings.total <= 0
        THEN won("black", "Black wins by capturing all white rings!")
        ELSE IF ~blackHasPieces
        THEN won("white", "White wins by removing all black pieces from the board!")
        ELSE IF ~whiteHasPieces
        THEN won("black", "Black wins by removing all white pieces from the board!")
        ELSE [hasWon |-> FALSE, winner |-> NoWinner,
              message |-> "Game in progress."]

\* GameRules.checkDrawCondition(gameState)
checkDrawCondition(s) ==
    LET positionKey == getPositionKey(s)
        repetitionCount == IF positionKey \in DOMAIN s.positionCounts
                           THEN s.positionCounts[positionKey] ELSE 0
    IN  IF repetitionCount >= 3
        THEN [isDraw |-> TRUE, message |-> "draw: threefold repetition"]
        ELSE IF ~hasValidMoves(s)
        THEN [isDraw |-> TRUE, message |-> "draw: no valid moves"]
        ELSE [isDraw |-> FALSE, message |-> "Game in progress."]

(***************************************************************************)
(* The state machine: the variables are the fields of the engine object.   *)
(***************************************************************************)
(***************************************************************************)
(* ModelLoader.  The page constructs the loader, sets its callbacks and    *)
(* calls loadGameModels(); the completion callback calls initGame, which   *)
(* constructs the GameState.                                               *)
(***************************************************************************)
\* Object.keys(modelPaths)
ModelKeys ==
    { "tile_black", "tile_white", "disc_black", "disc_white",
      "ring_black", "ring_white" }

\* new ModelLoader()
NewModelLoader == [models |-> {}, totalModels |-> 0, loadedModels |-> 0]

\* loadGameModels(): the counters are set and loadModel is called for every
\* key; the loads settle later.
loadGameModels(loader) ==
    [loader EXCEPT !.totalModels = Cardinality(ModelKeys), !.loadedModels = 0]

\* "Check if all models are loaded": the completion callback is set by the
\* page before loadGameModels is called.
allLoaded(loader) == loader.loadedModels = loader.totalModels

\* A faulty error callback: the failed load is not counted.
onErrorNotCounted(loader, key) == loader

\* The success callback of loadModel: the model is stored and counted.
onLoad(loader, key) ==
    [loader EXCEPT !.models = @ \cup {key}, !.loadedModels = @ + 1]

\* The error callback of loadModel: "count as loaded to avoid blocking
\* completion".
onError(loader, key) ==
    [loader EXCEPT !.loadedModels = @ + 1]

\* The loader of a page on which the game runs: every load has settled
\* (here with success) and the completion callback has started the game.
LoadingComplete ==
    /\ modelLoader = [models |-> ModelKeys,
                      totalModels |-> Cardinality(ModelKeys),
                      loadedModels |-> Cardinality(ModelKeys)]
    /\ requests = {}
    /\ onCompleteCalls = 1

State ==
    [ grid |-> grid, players |-> players, currentPlayer |-> currentPlayer,
      selectedAction |-> selectedAction, selectedHex |-> selectedHex,
      validMoves |-> validMoves, gameOver |-> gameOver, winner |-> winner,
      message |-> message, canContinueJumping |-> canContinueJumping,
      lastJumpedPiece |-> lastJumpedPiece, history |-> history,
      positionCounts |-> positionCounts, pc |-> pc ]

\* The variables hold engine state s.
Holds(s) ==
    /\ grid = s.grid
    /\ players = s.players
    /\ currentPlayer = s.currentPlayer
    /\ selectedAction = s.selectedAction
    /\ selectedHex = s.selectedHex
    /\ validMoves = s.validMoves
    /\ gameOver = s.gameOver
    /\ winner = s.winner
    /\ message = s.message
    /\ canContinueJumping = s.canContinueJumping
    /\ lastJumpedPiece = s.lastJumpedPiece
    /\ history = s.history
    /\ positionCounts = s.positionCounts
    /\ pc = s.pc
    /\ LoadingComplete

\* The engine variables' next value is engine state s.
Assigns(s) ==
    /\ grid' = s.grid
    /\ players' = s.players
    /\ currentPlayer' = s.currentPlayer
    /\ selectedAction' = s.selectedAction
    /\ selectedHex' = s.selectedHex
    /\ validMoves' = s.validMoves
    /\ gameOver' = s.gameOver
    /\ winner' = s.winner
    /\ message' = s.message
    /\ canContinueJumping' = s.canContinueJumping
    /\ lastJumpedPiece' = s.lastJumpedPiece
    /\ history' = s.history
    /\ positionCounts' = s.positionCounts
    /\ pc' = s.pc

\* The engine state after the call becomes the variables' next value; the
\* engine does not touch the model loader.
Becomes(s) ==
    /\ Assigns(s)
    /\ UNCHANGED loaderVars

\* The coordinates a click can name: every cell of the board and every
\* coordinate next to one (all legal tile positions, and positions that
\* are legal for nothing).
ClickHexes(g) ==
    getAllCells(g) \cup UNION { getNeighborHexes(h) : h \in getAllCells(g) }

(***************************************************************************)
(* Commands and recorded games.  A command is one call of a public method; *)
(* a recorded game is the sequence of commands of its clicks, and Run      *)
(* replays it on an engine state.                                          *)
(***************************************************************************)
A(action) == [op |-> "selectAction", action |-> action, hex |-> NoHex]
H(q, r) == [op |-> "selectHex", action |-> NoAction, hex |-> Hex(q, r)]

Apply(s, cmd) ==
    IF cmd.op = "selectAction" THEN selectAction(s, cmd.action)
                               ELSE selectHex(s, cmd.hex)

RECURSIVE RunFrom(_, _, _)
RunFrom(s, cmds, i) ==
    \* no command is taken once a call does not return
    IF i > Len(cmds) \/ s.pc # "ready" THEN s
    ELSE RunFrom(Apply(s, cmds[i]), cmds, i + 1)

Run(s, cmds) == RunFrom(s, cmds, 1)

\* The clicks of one turn: a tile, disc or ring placement, or a move.
T(q, r) == << A("placeTile"), H(q, r) >>
D(q, r) == << A("placeDisc"), H(q, r) >>
R(q, r) == << A("placeRing"), H(q, r) >>
M(q1, r1, q2, r2) == << A("movePiece"), H(q1, r1), H(q2, r2) >>

\* Five turns after which the white disc at (1,-2) has the chained
\* destination (-1,2), two jumps in different directions away.
HangGame ==
    T(0, -1) \o T(1, -2) \o T(-1, 1) \o D(1, -2) \o T(-1, 2)

\* Three turns after which the white disc at (0,1) can jump over the black
\* disc at (0,0) and has further jumps from where it lands.
JumpGame ==
    T(0, -1) \o T(2, -1) \o D(0, 0)

\* Seven turns of both discs stepping out and back: the position after the
\* eighth is the initial one for the third time.
ShuffleGame ==
    M(1, -1, 0, 0) \o M(0, 1, 1, 0) \o M(0, 0, 1, -1) \o M(1, 0, 0, 1)
    \o M(1, -1, 0, 0) \o M(0, 1, 1, 0) \o M(0, 0, 1, -1)

\* Eighteen turns: white has placed its six discs on the midpoints of two
\* triangles that share the corner (0,0), where a black disc stands; a
\* second black disc stands at (-1,1) with the empty tile (-2,2) behind it.
SixDiscsGame ==
    M(1, -1, 0, 0) \o T(1, 1) \o T(-1, 1) \o T(0, -1) \o T(-1, 2) \o T(1, -2)
    \o T(-2, 2) \o D(1, 0) \o T(2, 0) \o M(1, 0, 1, -1) \o T(0, 2) \o D(1, 0)
    \o T(2, -2) \o D(1, 1) \o T(0, -2) \o D(0, -1) \o D(-1, 1) \o D(1, -2)

\* The same game, and black's next turn up to its fifth capture.
FiveCapturesGame ==
    SixDiscsGame
    \o << A("movePiece"), H(0, 0), H(2, -2), H(0, -2), H(0, 0), H(2, 0), H(0, 2) >>

\* Twenty turns that fill an eleven-tile board: black has placed all its
\* tiles, and each colour has one empty tile of its own left.
FullBoardGame ==
    T(2, -1) \o D(1, 0) \o T(2, 0) \o M(0, 1, 0, 0) \o D(2, -1) \o D(0, 1)
    \o T(1, 1) \o M(1, 0, 1, 1) \o T(0, 2) \o D(1, 0) \o T(-1, 2)
    \o M(0, 1, 0, 2) \o T(-1, 1) \o D(0, 1) \o T(0, -1) \o M(1, 0, 2, 0)
    \o D(-1, 2) \o M(0, 0, -1, 1) \o D(0, 0) \o M(0, 1, 1, 0)

\* The same turn given up: black selects its other disc instead of jumping on.
ForfeitGame ==
    FiveCapturesGame \o << A("movePiece"), H(-1, 1) >>

\* Eleven turns: each colour has captured a disc by a jump and placed a
\* ring for it.  The white ring at (1,0) and the black ring at (-1,0) are
\* two steps apart in a straight line; the white disc at (-1,2) is two
\* steps from both.
RingGame ==
    T(0, -1) \o T(-1, 1) \o D(0, 0) \o M(0, 1, 0, -1) \o T(-1, 0) \o R(1, 0)
    \o T(-1, -1) \o T(-1, 2) \o M(1, -1, -1, -1) \o D(-1, 2) \o R(-1, 0)

\* Nine turns and a jump: the white disc has jumped from (0,-1) over the
\* black disc at (1,-1) to (2,-1) and can jump on over white's own ring at
\* (1,0); that ring has no tile two steps away in any direction.
BlockedRingGame ==
    T(0, -1) \o T(-1, 1) \o D(0, 0) \o M(0, 1, 0, -1) \o T(1, 1) \o R(1, 0)
    \o T(2, 0) \o T(2, -1) \o D(0, 0) \o M(0, -1, 2, -1)

\* ShuffleGame and two more turns: the next step back of the white disc,
\* from (0,1) to (1,0), brings the position after turn 2 for the third time.
RepetitionGame ==
    ShuffleGame \o M(1, 0, 0, 1) \o M(1, -1, 0, 0)

AfterHangGame == Run(NewGameState, HangGame)
AfterJumpGame == Run(NewGameState, JumpGame)
AfterShuffleGame == Run(NewGameState, ShuffleGame)
AfterSixDiscsGame == Run(NewGameState, SixDiscsGame)
AfterFiveCapturesGame == Run(NewGameState, FiveCapturesGame)
AfterForfeitGame == Run(NewGameState, ForfeitGame)
AfterFullBoardGame == Run(NewGameState, FullBoardGame)
AfterRingGame == Run(NewGameState, RingGame)
AfterBlockedRingGame == Run(NewGameState, BlockedRingGame)
AfterRepetitionGame == Run(NewGameState, RepetitionGame)

RecordedGames ==
    { HangGame, JumpGame, ShuffleGame, SixDiscsGame, FiveCapturesGame,
      ForfeitGame, FullBoardGame, RingGame, BlockedRingGame, RepetitionGame }

\* The history of each recorded game.
Recorded == { Run(NewGameState, game).history : game \in RecordedGames }

IsPrefix(h, k) == Len(h) <= Len(k) /\ SubSeq(k, 1, Len(h)) = h

\* The commands are explored while the game is within MaxHistory entries
\* of its start, or within MaxTurns turns of the end of a recorded game.
InBounds ==
    \/ Len(history) < MaxHistory
    \/ \E recorded \in Recorded :
          /\ IsPrefix(recorded, history)
          /\ Len(history) < Len(recorded) + MaxTurns

Init == Holds(NewGameState)
InitHang == Holds(AfterHangGame)
InitJump == Holds(AfterJumpGame)
InitShuffle == Holds(AfterShuffleGame)
InitSixDiscs == Holds(AfterSixDiscsGame)
InitFiveCaptures == Holds(AfterFiveCapturesGame)
InitFullBoard == Holds(AfterFullBoardGame)
InitRing == Holds(AfterRingGame)
InitBlockedRing == Holds(AfterBlockedRingGame)
InitRepetition == Holds(AfterRepetitionGame)

\* UserInterface.onActionButtonClick -> gameState.selectAction(action)
SelectAction ==
    /\ pc = "ready"
    /\ InBounds
    /\ \E action \in Actions : Becomes(selectAction(State, action))

\* UserInterface.onCanvasClick -> gameState.selectHex(hex)
SelectHex ==
    /\ pc = "ready"
    /\ InBounds
    /\ \E hex \in ClickHexes(grid) : Becomes(selectHex(State, hex))

\* UserInterface.onNewGameClick -> gameState.initializeGame()
NewGame ==
    /\ pc = "ready"
    /\ Becomes(initializeGame(State))

Next == SelectAction \/ SelectHex \/ NewGame

Spec == Init /\ [][Next]_vars
SpecHang == InitHang /\ [][Next]_vars
SpecJump == InitJump /\ [][Next]_vars
SpecShuffle == InitShuffle /\ [][Next]_vars
SpecSixDiscs == InitSixDiscs /\ [][Next]_vars
SpecFiveCaptures == InitFiveCaptures /\ [][Next]_vars
SpecFullBoard == InitFullBoard /\ [][Next]_vars
SpecRing == InitRing /\ [][Next]_vars
SpecBlockedRing == InitBlockedRing /\ [][Next]_vars
SpecRepetition == InitRepetition /\ [][Next]_vars

(***************************************************************************)
(* Reconstruction.  The texts given to importGame and the items found in   *)
(* localStorage come from outside the engine: the saved game below, the    *)
(* position after ShuffleGame, and what damaged copies of it parse to.     *)
(***************************************************************************)
SavedGames == { exportGame(AfterShuffleGame) }

\* Not JSON at all: JSON.parse throws.
Unparseable(data) == [data EXCEPT !.parses = FALSE]
\* The key is missing from the object.
WithoutKey(data, key) == [data EXCEPT !.has = @ \ {key}]
\* "grid": {} in place of the array.
GridNotAList(data) == [data EXCEPT !.gridIsList = FALSE, !.grid = << >>]
\* Element i of the array is a number in place of a pair.
BadEntry(data, i) == [data EXCEPT !.grid[i] = NotAPair]

MalformedFiles ==
    UNION { { Unparseable(data), WithoutKey(data, "grid"),
              WithoutKey(data, "players"), GridNotAList(data),
              BadEntry(data, 4) } : data \in SavedGames }

ImportFiles == SavedGames \cup MalformedFiles

\* An empty slot, the saved games, and damaged items that still carry
\* every key other than grid.
MalformedItems ==
    UNION { { [found |-> TRUE, data |-> Unparseable(data)],
              [found |-> TRUE, data |-> WithoutKey(data, "grid")],
              [found |-> TRUE, data |-> GridNotAList(data)],
              [found |-> TRUE, data |-> BadEntry(data, 4)] }
            : data \in SavedGames }

StoredItems ==
    { [found |-> FALSE, data |-> Unparseable(exportGame(NewGameState))] }
    \cup { [found |-> TRUE, data |-> data] : data \in SavedGames }
    \cup MalformedItems

\* UserInterface import button -> gameState.importGame(jsonString)
ImportGame ==
    /\ pc = "ready"
    /\ \E data \in ImportFiles : Becomes(importGame(State, data).s)

\* UserInterface load button -> gameState.loadGame(slot.name)
LoadGame ==
    /\ pc = "ready"
    /\ \E item \in StoredItems : Becomes(loadGame(State, item).s)

NextPersistence ==
    SelectAction \/ SelectHex \/ NewGame \/ ImportGame \/ LoadGame

SpecPersistence == Init /\ [][NextPersistence]_vars

(***************************************************************************)
(* Loading of the models.  The page has constructed the loader; there is   *)
(* no GameState until the completion callback runs initGame.  Each load    *)
(* handed to the GLTFLoader settles once, by its success callback or by    *)
(* its error callback, in any order.                                       *)
(***************************************************************************)
InitLoader ==
    /\ grid = Constructed.grid
    /\ players = Constructed.players
    /\ currentPlayer = Constructed.currentPlayer
    /\ selectedAction = Constructed.selectedAction
    /\ selectedHex = Constructed.selectedHex
    /\ validMoves = Constructed.validMoves
    /\ gameOver = Constructed.gameOver
    /\ winner = Constructed.winner
    /\ message = Constructed.message
    /\ canContinueJumping = Constructed.canContinueJumping
    /\ lastJumpedPiece = Constructed.lastJumpedPiece
    /\ history = Constructed.history
    /\ positionCounts = Constructed.positionCounts
    /\ pc = "page"
    /\ modelLoader = NewModelLoader
    /\ requests = {}
    /\ onCompleteCalls = 0

\* The callback of a settled load has counted it: when all are counted the
\* completion callback is invoked, which runs initGame (new GameState()).
Settled(loader, key) ==
    /\ modelLoader' = loader
    /\ requests' = requests \ {key}
    /\ IF allLoaded(loader)
       THEN /\ onCompleteCalls' = onCompleteCalls + 1
            /\ Assigns(NewGameState)
       ELSE UNCHANGED << onCompleteCalls, grid, players, currentPlayer,
                         selectedAction, selectedHex, validMoves, gameOver,
                         winner, message, canContinueJumping,
                         lastJumpedPiece, history, positionCounts, pc >>

\* DOMContentLoaded handler -> modelLoader.loadGameModels()
LoadGameModels ==
    /\ pc = "page"
    /\ modelLoader' = loadGameModels(modelLoader)
    /\ requests' = ModelKeys
    /\ pc' = "loading"
    /\ UNCHANGED << onCompleteCalls, grid, players, currentPlayer,
                    selectedAction, selectedHex, validMoves, gameOver,
                    winner, message, canContinueJumping, lastJumpedPiece,
                    history, positionCounts >>

\* GLTFLoader -> success callback of loadModel(key, path)
OnLoad ==
    \E key \in requests : Settled(onLoad(modelLoader, key), key)

\* GLTFLoader -> error callback of loadModel(key, path)
OnError ==
    \E key \in requests : Settled(onError(modelLoader, key), key)

NextLoader == LoadGameModels \/ OnLoad \/ OnError

SpecLoader == InitLoader /\ [][NextLoader]_vars

(***************************************************************************)
(* Properties.                                                             *)
(***************************************************************************)
Pools == {"tiles", "discs", "rings"}

\* The step completes a turn: the position is logged.
TurnEnds == Len(history') = Len(history) + 1

\* The first of the three win conditions that holds against the opponent
\* of player p in engine state s.
WinReason(s, p) ==
    LET o == Opponent(p)
    IN  IF s.players[o].discs.total = 0 THEN "win: all discs captured"
        ELSE IF s.players[o].rings.total = 0 THEN "win: all rings captured"
        ELSE IF ~\E hex \in getAllCells(s.grid) :
                    /\ HasPiece(getCell(s.grid, hex))
                    /\ getCell(s.grid, hex).piece.color = o
        THEN "win: no pieces on the board"
        ELSE "none"

\* C1: stalemate is a draw.  Whenever a completed turn hands the move to a
\* player who has no legal action of any kind (no placement with supply at
\* a legal coordinate, no piece with a move), the game is over with no
\* winner.
C1_StalemateIsDraw ==
    [][ (TurnEnds /\ currentPlayer' # currentPlayer /\ ~hasValidMoves(State'))
          => (gameOver' /\ winner' = NoWinner) ]_vars

\* C2: in every reachable state placed <= total holds for every pool
\* (tiles, discs, rings) of both colours, also after captures.
C2_PlacedWithinTotal ==
    \A c \in Colors : \A pool \in Pools :
        players[c][pool].placed <= players[c][pool].total

\* C3: every selectHex on a legal destination of a disc terminates: the
\* walk of getJumpedHexes reaches the destination, so no command is left
\* inside its loop.
C3_SelectHexTerminates == pc = "ready"

\* The jump chains of the disc on hex: every landing hex a sequence of
\* jumps (over an adjacent piece onto the empty tile behind it, landing on
\* no hex twice) leads to, with the hexes jumped over on the way.
RECURSIVE JumpChains(_, _, _, _)
JumpChains(g, hex, landed, over) ==
    UNION { LET mid == HexAdd(hex, HEX_DIRECTIONS[i])
                to == HexAdd(mid, HEX_DIRECTIONS[i])
            IN  IF /\ hasCell(g, mid)
                   /\ HasPiece(getCell(g, mid))
                   /\ hasCell(g, to)
                   /\ ~HasPiece(getCell(g, to))
                   /\ to \notin landed
                THEN {[to |-> to, over |-> over \cup {mid}]}
                     \cup JumpChains(g, to, landed \cup {to}, over \cup {mid})
                ELSE {}
          : i \in 1..6 }

\* The sets of pieces a move of the disc on fromHex to toHex may remove:
\* the opponent pieces jumped over on some chain to toHex, or nothing for
\* a step to a neighbour.
Captures(g, fromHex, toHex) ==
    { { h \in c.over : getCell(g, h).piece.color # getCell(g, fromHex).piece.color }
        : c \in { d \in JumpChains(g, fromHex, {fromHex}, {}) : d.to = toHex } }
    \cup (IF HexDistance(fromHex, toHex) = 1 THEN {{}} ELSE {})

\* The coordinates other than the source whose piece the step removes.
Removed ==
    { h \in getAllCells(grid) \ {selectedHex} :
        HasPiece(getCell(grid, h)) /\ ~HasPiece(getCell(grid', h)) }

\* C4: a disc move to a destination of validDiscMoves(source) removes
\* exactly the opponent pieces jumped over on a valid jump chain from the
\* source to that destination, nothing for a one-step move, never a piece
\* that is not jumped over and never a friendly piece.
C4_CapturesAreTheJumpedPieces ==
    [][ ( /\ selectedAction = "movePiece"
          /\ selectedHex # NoHex
          /\ getCell(grid, selectedHex).piece.type = "disc" )
        => \A hex \in validMoves :
              (State' = selectHex(State, hex) /\ pc' = "ready")
                => Removed \in Captures(grid, selectedHex, hex) ]_vars

\* The player to move is in the middle of a chain of capturing jumps.
Continuation ==
    /\ ~gameOver
    /\ canContinueJumping
    /\ lastJumpedPiece # NoHex
    /\ hasCell(grid, lastJumpedPiece)
    /\ getCell(grid, lastJumpedPiece).piece = Piece("disc", currentPlayer)

\* The step is a jump of the disc that is mid-chain.
FurtherJump ==
    /\ selectedAction = "movePiece"
    /\ selectedHex = lastJumpedPiece
    /\ \E hex \in validMoves :
          /\ HexDistance(selectedHex, hex) > 1
          /\ State' = selectHex(State, hex)

\* C5: while a continuation is pending, only a further jump by the same
\* disc changes the board or a resource counter: no placement and no move
\* of another piece is applied in that turn.
C5_OnlyFurtherJumps ==
    [][ ( /\ Continuation
          /\ State' # initializeGame(State)
          /\ (grid' # grid \/ players' # players) )
        => FurtherJump ]_vars

\* A click is awaited that names the piece to move, during a continuation.
SourceSelection ==
    /\ Continuation
    /\ selectedAction = "movePiece"
    /\ selectedHex = NoHex

\* The turn ends with the step: the unchanged position is logged, the win
\* conditions decide, the player switches unless the game is over, the
\* further jumps are given up and no piece is selected.
TurnForfeited ==
    /\ TurnEnds
    /\ grid' = grid
    /\ players' = players
    /\ ~canContinueJumping'
    /\ lastJumpedPiece' = NoHex
    /\ selectedHex' = NoHex
    /\ WinReason(State, currentPlayer) # "none"
          => (gameOver' /\ winner' = currentPlayer)
    /\ ~gameOver' => currentPlayer' = Opponent(currentPlayer)

\* C6 as stated: during a continuation a source selection on any
\* coordinate other than the disc mid-chain ends the turn immediately.
C6_AnyOtherCoordinateEndsTurn ==
    [][ SourceSelection
        => \A hex \in ClickHexes(grid) \ {lastJumpedPiece} :
              State' = selectHex(State, hex) => TurnForfeited ]_vars

\* C6: during a continuation a source selection on a coordinate other than
\* the disc mid-chain that holds a piece of the player to move ends the
\* turn immediately: the position is logged, the win conditions are
\* evaluated, the player switches if the game is not over, the further
\* jumps are forfeited and no new piece becomes selected.
C6_OtherOwnPieceEndsTurn ==
    [][ SourceSelection
        => \A hex \in ClickHexes(grid) \ {lastJumpedPiece} :
              ( /\ hasCell(grid, hex)
                /\ HasPiece(getCell(grid, hex))
                /\ getCell(grid, hex).piece.color = currentPlayer
                /\ State' = selectHex(State, hex) )
              => TurnForfeited ]_vars

\* Black has given up its chain after five captures by selecting its other
\* disc.
C6_Forfeited == State = AfterForfeitGame

\* The position initializeGame logs.
InitialKey == getPositionKey(NewGameState)

\* The board content of a logged position: the colour of each tile and the
\* piece on it (a piece property that is null and one that is absent both
\* say there is none).
Content(key) ==
    [h \in DOMAIN key.cells |->
        [color |-> key.cells[h].color,
         piece |-> IF HasPiece(key.cells[h]) THEN key.cells[h].piece
                                             ELSE NoPieceKey]]

\* How often the position logged under key occurred with player p to move
\* in a game that is not over: the initial position has black to move, a
\* position logged at the end of a turn has the opponent of its mover.
TimesToMove(key, p) ==
    IF key = InitialKey
    THEN IF p = "black" THEN 1 ELSE positionCounts[key] - 1
    ELSE IF p = Opponent(key.currentPlayer) THEN positionCounts[key] ELSE 0

RECURSIVE Occurrences(_, _, _)
Occurrences(keys, content, p) ==
    IF keys = {} THEN 0
    ELSE LET key == CHOOSE k \in keys : TRUE
         IN  (IF Content(key) = content THEN TimesToMove(key, p) ELSE 0)
             + Occurrences(keys \ {key}, content, p)

\* C7: threefold repetition.  When the same board content with the same
\* player to move has occurred at the end of three turns of one game (the
\* initial position counting as one), the game is over: it does not go on
\* past the third occurrence.
C7_ThirdOccurrenceEndsGame ==
    ~gameOver =>
        \A key \in DOMAIN positionCounts : \A p \in Colors :
            Occurrences(DOMAIN positionCounts, Content(key), p) < 3

\* C8: after every completed turn by player P the outcome is a win for P
\* if and only if the opponent's disc total is 0, or its ring total is 0,
\* or it has no piece on the board; the first condition that holds gives
\* the reason, and when P wins the player to move is still P.
C8_WinIffCondition ==
    [][ TurnEnds =>
          /\ (gameOver' /\ winner' = currentPlayer)
                <=> WinReason(State', currentPlayer) # "none"
          /\ WinReason(State', currentPlayer) # "none"
                => /\ message' = WinReason(State', currentPlayer)
                   /\ currentPlayer' = currentPlayer ]_vars

\* The step is a capture that takes white's last disc out of its pool.
LastWhiteDiscCaptured ==
    /\ players.white.discs.total > 0
    /\ players'.white.discs.total = 0

\* C9 as stated: any capture that drives white.discs.total to 0 gives the
\* win to black by discs in the resulting state, also when the capturing
\* jump leaves further jumps available.
C9_WinWithEveryLastCapture ==
    [][ LastWhiteDiscCaptured
        => /\ gameOver'
           /\ winner' = "black"
           /\ message' = "win: all discs captured" ]_vars

\* C9: a capture that drives white.discs.total to 0 and leaves no further
\* jump gives the win to black by discs in the resulting state, before any
\* player switch; when the capturing jump leaves further jumps available
\* the game is not over in the resulting state, black stays to move, and
\* the win is given when that turn ends with the total still 0.
C9_WinWhenTurnEnds ==
    [][ /\ LastWhiteDiscCaptured
           => IF canContinueJumping'
              THEN ~gameOver' /\ currentPlayer' = "black" /\ ~TurnEnds
              ELSE /\ gameOver'
                   /\ winner' = "black"
                   /\ message' = "win: all discs captured"
                   /\ currentPlayer' = "black"
        /\ (TurnEnds /\ players'.white.discs.total = 0)
           => /\ gameOver'
              /\ winner' = "black"
              /\ message' = "win: all discs captured"
              /\ currentPlayer' = "black" ]_vars

\* Black's disc has landed on (1,1) over white's last disc, no further
\* jump is left, and the game is won.
C9_WonByLastCapture ==
    /\ gameOver
    /\ winner = "black"
    /\ message = "win: all discs captured"
    /\ players.white.discs.total = 0
    /\ players.black.discs.captured = 6
    /\ getCell(grid, Hex(1, 1)).piece = Piece("disc", "black")
    /\ ~canContinueJumping

\* The step is a ring placement by colour c.
RingPlacedBy(c) ==
    /\ currentPlayer = c
    /\ selectedAction = "placeRing"
    /\ players'[c].rings.placed = players[c].rings.placed + 1
    /\ players'[c].discs.captured = players[c].discs.captured - 1
    /\ \E hex \in validMoves :
          /\ ~HasPiece(getCell(grid, hex))
          /\ getCell(grid', hex).piece = Piece("ring", c)

\* C10: across every transition of a game (every selectAction and
\* selectHex call) no total of tiles or rings increases, and a colour's
\* discs.total increases only when the opponent places a ring, and then by
\* exactly 1, together with that opponent's discs.captured decreasing by
\* exactly 1 and its rings.placed increasing by exactly 1.
C10_TotalGrowsOnlyByRingPlacement ==
    [][ State' # initializeGame(State)
        => \A c \in Colors :
              /\ players'[c].tiles.total <= players[c].tiles.total
              /\ players'[c].rings.total <= players[c].rings.total
              /\ players'[c].discs.total > players[c].discs.total
                    => /\ players'[c].discs.total = players[c].discs.total + 1
                       /\ RingPlacedBy(Opponent(c))
              /\ players'[c].rings.placed > players[c].rings.placed
                    => /\ RingPlacedBy(c)
                       /\ players'[Opponent(c)].discs.total
                            = players[Opponent(c)].discs.total + 1 ]_vars

\* A ring stands on the board and a captured disc has gone back for it.
C10_RingPlaced ==
    \E c \in Colors :
        /\ players[c].rings.placed = 1
        /\ \E hex \in getAllCells(grid) :
              getCell(grid, hex).piece = Piece("ring", c)

\* The step is a move: selectHex on a legal destination of the selected piece.
MoveStep ==
    /\ selectedAction = "movePiece"
    /\ selectedHex # NoHex
    /\ \E hex \in validMoves : State' = selectHex(State, hex)

\* The coordinates where the step captures a piece of the given type and
\* colour: before a move the piece stands there, after it it does not, and
\* it is not the piece that moves.
CapturedAt(type, c) ==
    IF MoveStep
    THEN { h \in getAllCells(grid) \ {selectedHex} :
             /\ getCell(grid, h).piece = Piece(type, c)
             /\ getCell(grid', h).piece # Piece(type, c) }
    ELSE {}

PieceType(pool) == IF pool = "discs" THEN "disc" ELSE "ring"

\* The pool of colour c loses n pieces to the player to move.
TotalFallsBy(c, pool, n) ==
    /\ players'[c][pool].total < players[c][pool].total <=> n > 0
    /\ n > 0 =>
          /\ currentPlayer = Opponent(c)
          /\ players'[c][pool].total = players[c][pool].total - n
          /\ players'[Opponent(c)][pool].captured
                = players[Opponent(c)][pool].captured + n

\* C11: across every transition a colour's disc (ring) total decreases if
\* and only if discs (rings) of that colour are removed from the board by
\* capture in that transition, by exactly the number removed, and the
\* capturing player's captured counter of that kind increases by the same
\* number.
C11_TotalFallsByCaptures ==
    [][ \A c \in Colors : \A pool \in {"discs", "rings"} :
          TotalFallsBy(c, pool, Cardinality(CapturedAt(PieceType(pool), c))) ]_vars

\* The white ring has moved from (1,0) onto the black ring at (-1,0) and
\* captured it.
C11_RingTakenByRing ==
    /\ hasCell(grid, Hex(-1, 0))
    /\ getCell(grid, Hex(-1, 0)).piece = Piece("ring", "white")
    /\ getCell(grid, Hex(1, 0)).piece = NullPiece
    /\ players.white.rings.captured = 1
    /\ players.black.rings.total = 2

\* The supply of the action is exhausted for the player to move: no piece
\* of the kind is left to place, or no captured disc to return for a ring.
SupplyExhausted(action) ==
    LET me == players[currentPlayer]
    IN  CASE action = "placeTile" -> me.tiles.placed >= me.tiles.total
          [] action = "placeDisc" -> me.discs.placed >= me.discs.total
          [] action = "placeRing" -> \/ me.rings.placed >= me.rings.total
                                     \/ me.discs.captured <= 0
          [] action = "movePiece" -> FALSE

\* The step is selectAction(action), rejected for its exhausted supply.
RejectedAction(action) ==
    /\ ~gameOver
    /\ pc = "ready"
    /\ SupplyExhausted(action)
    /\ State' = selectAction(State, action)

SupplyMessages ==
    { "No more tiles available to place.", "No more discs available to place.",
      "No more rings available to place.",
      "You need captured discs to place a ring." }

OwnPiece(hex) ==
    /\ hasCell(grid, hex)
    /\ HasPiece(getCell(grid, hex))
    /\ getCell(grid, hex).piece.color = currentPlayer

\* The legal destinations of the piece on hex: the moves of its kind, and
\* only the jumps for the disc that is mid-chain.
LegalMoves(hex) ==
    IF getCell(grid, hex).piece.type = "ring" THEN getValidRingMoves(grid, hex)
    ELSE IF canContinueJumping
    THEN { move \in getValidDiscMoves(grid, hex) : HexDistance(hex, move) > 1 }
    ELSE getValidDiscMoves(grid, hex)

\* A piece to move is awaited.
AwaitingSource == selectedAction = "movePiece" /\ selectedHex = NoHex

\* A click on hex is one of the illegal selections of the claim: no action
\* is chosen; or a source is awaited and, no continuation pending, hex
\* holds no piece of the player to move; or a source is awaited and the
\* piece of the player on hex has no legal move; or a destination is
\* awaited and hex is not a legal one.
IllegalSelection(hex) ==
    /\ ~gameOver
    /\ pc = "ready"
    /\ \/ selectedAction = NoAction
       \/ /\ AwaitingSource
          /\ \/ ~canContinueJumping /\ ~OwnPiece(hex)
             \/ OwnPiece(hex) /\ LegalMoves(hex) = {}
       \/ /\ selectedAction # NoAction
          /\ ~AwaitingSource
          /\ hex \notin validMoves

\* During a continuation the click names a piece of the player to move
\* other than the disc mid-chain.
OtherPieceMidChain(hex) ==
    /\ AwaitingSource
    /\ canContinueJumping
    /\ OwnPiece(hex)
    /\ hex # lastJumpedPiece

RejectionMessages ==
    { "Select an action first.", "Select one of your pieces to move.",
      "This piece has no valid moves.", "Invalid move. Try again." }

\* C13 as stated: selectHex with no action chosen, with a source that does
\* not hold a piece of the player to move (no continuation pending), with
\* a source piece that has no legal move, or with a destination that is not
\* a legal one changes nothing except the status message.
C13_IllegalSelectionChangesNothing ==
    [][ \A hex \in ClickHexes(grid) :
          (IllegalSelection(hex) /\ State' = selectHex(State, hex))
             => State' = [State EXCEPT !.message = message'] ]_vars

\* C13: illegal source and destination selections leave the state
\* unchanged: selectHex with no action chosen, with a source that does not
\* hold a piece of the player to move (no continuation pending), with a
\* source piece that has no legal move (no continuation pending, or the
\* piece is the disc mid-chain), or with a destination that is not a legal
\* one changes nothing except the status message: board, resources, player
\* to move, selection, history and outcome are as before.  During a
\* continuation a click on another piece of the player that has no legal
\* move ends the turn like a click on any other piece of the player.
C13_RejectedSelectionChangesNothing ==
    [][ \A hex \in ClickHexes(grid) :
          (IllegalSelection(hex) /\ State' = selectHex(State, hex))
             => IF OtherPieceMidChain(hex)
                THEN TurnForfeited
                ELSE /\ message' \in RejectionMessages
                     /\ State' = [State EXCEPT !.message = message'] ]_vars

\* The white disc mid-chain on (2,-1) is selected and a click on a
\* coordinate that is no jump of it was refused: the selection stands.
C13_DestinationRefused ==
    /\ message = "Invalid move. Try again."
    /\ selectedAction = "movePiece"
    /\ selectedHex = Hex(2, -1)
    /\ canContinueJumping
    /\ currentPlayer = "white"
    /\ validMoves # {}

\* The coordinates of the board and around it, two steps beyond the
\* outermost tiles in every direction.
Surroundings(g) ==
    { Hex(q, r) : q \in (g.minQ - 2)..(g.maxQ + 2),
                  r \in (g.minR - 2)..(g.maxR + 2) }

\* How many of the six neighbour coordinates of hex, from direction i on,
\* hold a tile of either colour.
RECURSIVE TilesAround(_, _, _)
TilesAround(g, hex, i) ==
    IF i > 6 THEN 0
    ELSE (IF HexAdd(hex, HEX_DIRECTIONS[i]) \in DOMAIN g.cells THEN 1 ELSE 0)
         + TilesAround(g, hex, i + 1)

\* C14: for every coordinate h and every board, isValidTilePlacement(h) is
\* true if and only if no cell exists at h and at least 2 of its 6
\* neighbour coordinates hold tiles, of whatever colour; and
\* GameRules.isValidTilePlacement returns the same value.
C14_TilePlacementRule ==
    \A h \in Surroundings(grid) :
        /\ isValidTilePlacement(grid, h)
              <=> (h \notin DOMAIN grid.cells /\ TilesAround(grid, h, 1) >= 2)
        /\ RulesIsValidTilePlacement(grid, h) <=> isValidTilePlacement(grid, h)

\* A board with tiles added to the initial four, around which there are a
\* coordinate touching three or more tiles, one touching exactly two and
\* one touching exactly one.
C14_BoardGrown ==
    /\ Cardinality(getAllCells(grid)) > 4
    /\ \A n \in 1..3 :
          \E h \in Surroundings(grid) :
              /\ ~hasCell(grid, h)
              /\ IF n = 3 THEN TilesAround(grid, h, 1) >= 3
                          ELSE TilesAround(grid, h, 1) = n
              /\ isValidTilePlacement(grid, h) <=> n >= 2

\* The tiles that can be reached from the tiles in seen by steps between
\* adjacent tiles.
RECURSIVE Reachable(_, _)
Reachable(g, seen) ==
    LET more == { n \in UNION { getNeighborHexes(h) : h \in seen } :
                    hasCell(g, n) /\ n \notin seen }
    IN  IF more = {} THEN seen ELSE Reachable(g, seen \cup more)

\* C15: in every state reachable from a new game the set of coordinates
\* holding tiles is connected under hex adjacency: every tile reaches every
\* other tile through a path of adjacent tiles.
C15_BoardConnected ==
    \A h \in getAllCells(grid) : Reachable(grid, {h}) = getAllCells(grid)

\* Three tiles have been placed next to the initial four.
C15_SevenTiles ==
    /\ Cardinality(getAllCells(grid)) = 7
    /\ players.black.tiles.placed + players.white.tiles.placed = 7

\* The coordinates holding a disc.
Discs(g) == { h \in getAllCells(g) : getCell(g, h).piece.type = "disc" }

\* The coordinates the disc on hex reaches by a sequence of valid single
\* jumps through pairwise distinct landing coordinates.
JumpTargets(g, hex) == { chain.to : chain \in JumpChains(g, hex, {hex}, {}) }

\* C16: jump-chain soundness.  For every board and disc position h, every
\* coordinate of validDiscMoves(h) that is not a one-step neighbour move is
\* reachable from h by a sequence of valid single jumps (each over an
\* adjacent coordinate holding a piece, in a straight line, landing on a
\* tile with no piece) through pairwise distinct landing coordinates; and
\* every tile so reachable is in the result.
C16_JumpChainsSoundAndComplete ==
    \A h \in Discs(grid) :
        { move \in getValidDiscMoves(grid, h) : HexDistance(h, move) > 1 }
            = JumpTargets(grid, h)

\* The selected disc has among its legal destinations one that no single
\* jump reaches: it takes two or more jumps.
C16_ChainedDestination ==
    /\ selectedAction = "movePiece"
    /\ selectedHex \in Discs(grid)
    /\ validMoves = getValidDiscMoves(grid, selectedHex)
    /\ \E move \in validMoves :
          /\ move \in JumpTargets(grid, selectedHex)
          /\ \A i \in 1..6 :
                move # HexAdd(HexAdd(selectedHex, HEX_DIRECTIONS[i]),
                              HEX_DIRECTIONS[i])

\* The coordinates holding a ring.
Rings(g) == { h \in getAllCells(g) : getCell(g, h).piece.type = "ring" }

\* The coordinate two steps from hex in direction i.
TwoSteps(hex, i) == HexAdd(hex, << 2 * HEX_DIRECTIONS[i][1], 2 * HEX_DIRECTIONS[i][2] >>)

\* The coordinate holds a piece of colour c.
HoldsPieceOf(g, hex, c) ==
    hasCell(g, hex) /\ HasPiece(getCell(g, hex)) /\ getCell(g, hex).piece.color = c

\* The board without the cell at hex.
WithoutCell(g, hex) ==
    [g EXCEPT !.cells = [h \in (DOMAIN g.cells) \ {hex} |-> g.cells[h]]]

\* C17: ring capture asymmetry.  For every board and ring position h,
\* validRingMoves(h) is exactly the set of coordinates h + 2*d, for the six
\* directions d, that hold a tile and hold either no piece or a piece of
\* the opposite colour; it never contains a coordinate occupied by a
\* friendly piece, and the intermediate coordinate h + d is not consulted:
\* the result is the same on the board without that cell.
C17_RingMoves ==
    \A h \in Rings(grid) :
        LET c == getCell(grid, h).piece.color
        IN  /\ \A t \in Surroundings(grid) :
                  t \in getValidRingMoves(grid, h)
                     <=> /\ \E i \in 1..6 : t = TwoSteps(h, i)
                         /\ t \in DOMAIN grid.cells
                         /\ ~HoldsPieceOf(grid, t, c)
            /\ getValidRingMoves(grid, h) \subseteq Surroundings(grid)
            /\ \A t \in getValidRingMoves(grid, h) : ~HoldsPieceOf(grid, t, c)
            /\ \A i \in 1..6 :
                  getValidRingMoves(WithoutCell(grid, HexAdd(h, HEX_DIRECTIONS[i])), h)
                     = getValidRingMoves(grid, h)

\* A ring is selected that has, two steps away in straight lines, a piece
\* of its own colour (no destination), a piece of the other colour (a
\* destination) and a coordinate without a tile (no destination).
C17_RingSelected ==
    /\ selectedAction = "movePiece"
    /\ selectedHex \in Rings(grid)
    /\ validMoves = getValidRingMoves(grid, selectedHex)
    /\ \E i, j, k \in 1..6 :
          /\ HoldsPieceOf(grid, TwoSteps(selectedHex, i), currentPlayer)
          /\ TwoSteps(selectedHex, i) \notin validMoves
          /\ HoldsPieceOf(grid, TwoSteps(selectedHex, j), Opponent(currentPlayer))
          /\ TwoSteps(selectedHex, j) \in validMoves
          /\ ~hasCell(grid, TwoSteps(selectedHex, k))
          /\ TwoSteps(selectedHex, k) \notin validMoves

\* The four starting tiles: two per colour, with one disc per colour on a
\* tile of its own colour.
StartingBoard ==
    [h \in { Hex(0, 0), Hex(1, -1), Hex(1, 0), Hex(0, 1) } |->
        CASE h = Hex(0, 0) -> [color |-> "black", piece |-> "none"]
          [] h = Hex(1, -1) -> [color |-> "black", piece |-> "disc"]
          [] h = Hex(1, 0) -> [color |-> "white", piece |-> "none"]
          [] h = Hex(0, 1) -> [color |-> "white", piece |-> "disc"]]

\* Engine state s is the start of a game.
FreshGame(s) ==
    /\ \A c \in Colors :
          /\ s.players[c].tiles = [total |-> 9, placed |-> 2]
          /\ s.players[c].discs = [total |-> 6, placed |-> 1, captured |-> 0]
          /\ s.players[c].rings = [total |-> 3, placed |-> 0, captured |-> 0]
    /\ s.currentPlayer = "black"
    /\ DOMAIN s.grid.cells = DOMAIN StartingBoard
    /\ \A h \in DOMAIN StartingBoard :
          /\ s.grid.cells[h].color = StartingBoard[h].color
          /\ IF StartingBoard[h].piece = "disc"
             THEN s.grid.cells[h].piece = Piece("disc", StartingBoard[h].color)
             ELSE ~HasPiece(s.grid.cells[h])
    /\ ~s.gameOver
    /\ s.winner = NoWinner
    /\ s.selectedAction = NoAction
    /\ s.selectedHex = NoHex
    /\ s.validMoves = {}

\* C18: after newGame (initializeGame), on construction and from any state
\* of a game, each player has tiles.placed = 2, discs.placed = 1,
\* rings.placed = 0 with totals 9 / 6 / 3 and nothing captured, black is to
\* move, the board holds exactly the four starting tiles (two per colour)
\* with one disc per colour on a tile of its own colour, the game is in
\* progress, and no action, source or destination is selected.
C18_NewGameState ==
    /\ FreshGame(State)
    /\ [][ NewGame => FreshGame(State') ]_vars

\* A game in which white was mid-chain has been abandoned for a new one.
C18_GameRestarted ==
    /\ FreshGame(State)
    /\ Len(history) = 1
    /\ canContinueJumping
    /\ lastJumpedPiece = Hex(0, -1)

\* The step completes a turn and hands the move to a player who has no
\* valid move.
TurnEndsInStalemate ==
    /\ TurnEnds
    /\ currentPlayer' # currentPlayer
    /\ ~hasValidMoves(State')

\* C19: the rules predicates and the engine agree on the no-legal-move
\* verdict.  In every state where the player to move has no valid move,
\* GameRules.checkDrawCondition reports a draw, and the engine's own
\* outcome for that situation is likewise a draw with no winner.
C19_NoMoveVerdictsAgree ==
    [][ TurnEndsInStalemate =>
          /\ checkDrawCondition(State').isDraw
          /\ gameOver'
          /\ winner' = NoWinner ]_vars

\* The messages with which checkWinConditions ends a game.
WinMessages ==
    { "win: all discs captured", "win: all rings captured",
      "win: no pieces on the board" }

\* The step's checkWinConditions has ended the game with winner w.
EndedByWinConditions(w) ==
    /\ gameOver'
    /\ winner' = w
    /\ message' \in WinMessages

\* C20: the rules predicates and the engine agree on wins.  At the end of
\* every completed turn reachable from a new game,
\* GameRules.checkWinCondition(state) reports hasWon with winner W if and
\* only if GameState.checkWinConditions ended the game with winner W.
C20_WinVerdictsAgree ==
    [][ TurnEnds =>
          \A w \in Colors :
              (checkWinCondition(State').hasWon /\ checkWinCondition(State').winner = w)
                 <=> EndedByWinConditions(w) ]_vars

\* White's disc has jumped over black's only two pieces: the game is won
\* by white because black has no piece on the board, and the rules
\* predicate reports the same.
C20_WonWithoutPieces ==
    /\ gameOver
    /\ winner = "white"
    /\ message = "win: no pieces on the board"
    /\ checkWinCondition(State) =
          [hasWon |-> TRUE, winner |-> "white",
           message |-> "White wins by removing all black pieces from the board!"]

\* C21: reconstruction from malformed input fails cleanly.  When importGame
\* or loadGame is given input that cannot be fully applied (text that is
\* not JSON, an object without its grid or players, a grid that is not a
\* list, a list with an element that is not a (hash, cell) pair), it
\* returns false and the engine state (board cells, bounds, resources,
\* player to move, outcome, history) is left entirely unchanged: a corrupt
\* board is never partially applied.
C21_MalformedInputLeavesState ==
    [][ /\ \A data \in MalformedFiles :
              State' = importGame(State, data).s
                 => ~importGame(State, data).returns /\ State' = State
        /\ \A item \in MalformedItems :
              State' = loadGame(State, item).s
                 => ~loadGame(State, item).returns /\ State' = State ]_vars

\* An action that places a piece.
PieceActions == {"placeDisc", "placeRing"}

\* The empty tiles of the colour of the player to move.
OwnEmptyTiles ==
    { h \in Surroundings(grid) :
        /\ h \in DOMAIN grid.cells
        /\ grid.cells[h].color = currentPlayer
        /\ grid.cells[h].piece.type \notin {"disc", "ring"} }

\* While a placement of a piece is selected in a game in progress, the
\* legal destinations are the empty tiles of the player to move, and
\* isValidPiecePlacement says the same of every coordinate.
PlacementDestinations ==
    /\ (~gameOver /\ selectedAction \in PieceActions) =>
          /\ validMoves = OwnEmptyTiles
          /\ validMoves = getValidPiecePlacements(grid, currentPlayer)
    /\ { h \in Surroundings(grid) :
            isValidPiecePlacement(grid, h, currentPlayer) } = OwnEmptyTiles

\* The coordinates that hold a piece after the step which they did not
\* hold before it.
NewPieces ==
    { h \in getAllCells(grid') :
        /\ HasPiece(getCell(grid', h))
        /\ ~hasCell(grid, h) \/ getCell(grid, h).piece # getCell(grid', h).piece }

\* C22: piece placement legality.  The legal destinations of placeDisc and
\* placeRing are exactly the coordinates at which a cell exists, its tile
\* colour is that of the player to move and it holds no piece;
\* consequently every piece placed is of the placing player's colour and
\* lands on an empty tile of that colour.
C22_PiecePlacementLegal ==
    /\ []PlacementDestinations
    /\ [][ (selectedAction \in PieceActions /\ State' # initializeGame(State))
              => \A h \in NewPieces :
                    /\ h \in validMoves
                    /\ h \in OwnEmptyTiles
                    /\ getCell(grid', h).color = currentPlayer
                    /\ getCell(grid', h).piece =
                          Piece(IF selectedAction = "placeDisc" THEN "disc"
                                                                ELSE "ring",
                                currentPlayer)
                    /\ NewPieces = {h} ]_vars

\* A ring placement is selected with a destination to choose, on a board
\* where a tile of the player holds a piece and a tile of the opponent is
\* empty: neither is a legal destination.
C22_RingPlacementSelected ==
    /\ selectedAction = "placeRing"
    /\ validMoves # {}
    /\ \E h \in getAllCells(grid) \ validMoves :
          getCell(grid, h).color = currentPlayer /\ HasPiece(getCell(grid, h))
    /\ \E h \in getAllCells(grid) \ validMoves :
          getCell(grid, h).color # currentPlayer /\ ~HasPiece(getCell(grid, h))

\* C23: after any completed (non-continuing) action that does not end the
\* game, the player to move is switched to the other colour and the
\* machine is back in Idle: no action is selected, no source is selected
\* and the legal destinations are empty.
C23_CompletedTurnReturnsToIdle ==
    [][ (TurnEnds /\ ~gameOver')
          => /\ currentPlayer' = Opponent(currentPlayer)
             /\ selectedAction' = NoAction
             /\ selectedHex' = NoHex
             /\ validMoves' = {} ]_vars

PlacementActions == {"placeTile", "placeDisc", "placeRing"}

\* The board query a placement action takes its legal destinations from.
BoardQuery(action) ==
    IF action = "placeTile" THEN getValidTilePlacements(grid, currentPlayer)
                            ELSE getValidPiecePlacements(grid, currentPlayer)

SelectionPrompts ==
    [placeTile |-> "Select a position to place a tile.",
     placeDisc |-> "Select a tile to place a disc.",
     placeRing |-> "Select a tile to place a ring."]

\* The outcome of selectAction(action) in the step: refused for its supply,
\* selected with the destinations of its board query, or cancelled because
\* that query is empty.
ActionOutcome(action, query) ==
    /\ message' \in SupplyMessages <=> SupplyExhausted(action)
    /\ SupplyExhausted(action) => selectedAction' = NoAction /\ validMoves' = {}
    /\ (~SupplyExhausted(action) /\ query # {})
          => /\ selectedAction' = action
             /\ validMoves' = query
             /\ message' = SelectionPrompts[action]
    /\ (~SupplyExhausted(action) /\ query = {})
          => /\ selectedAction' = NoAction
             /\ validMoves' = {}
             /\ message' = "No valid positions"
    /\ selectedHex' = NoHex
    /\ grid' = grid /\ players' = players /\ currentPlayer' = currentPlayer

\* C24: selectAction(a) for a placement action succeeds exactly when the
\* supply of the player to move is not exhausted (placed < total) and, for
\* placeRing, discs.captured > 0; on success the legal destinations equal
\* the corresponding board query for the player to move, and if that set
\* is empty the action is cancelled: no action is selected.
C24_PlacementActionAcceptance ==
    [][ \A action \in PlacementActions :
          (~gameOver /\ pc = "ready" /\ State' = selectAction(State, action))
             => ActionOutcome(action, BoardQuery(action)) ]_vars

\* A disc placement was asked for by a player who has discs left but no
\* empty tile of its colour: the action was cancelled.
C24_PlacementCancelled ==
    /\ message = "No valid positions"
    /\ selectedAction = NoAction
    /\ ~gameOver
    /\ players[currentPlayer].discs.placed < players[currentPlayer].discs.total
    /\ getValidPiecePlacements(grid, currentPlayer) = {}

\* The selected disc of the player to move has the legal destination to,
\* an empty tile two steps away in a straight line, with a disc of the
\* opponent on mid, the coordinate between.
SimpleJumpOver(mid, to) ==
    /\ ~gameOver
    /\ pc = "ready"
    /\ selectedAction = "movePiece"
    /\ selectedHex # NoHex
    /\ HoldsPieceOf(grid, selectedHex, currentPlayer)
    /\ getCell(grid, selectedHex).piece.type = "disc"
    /\ to \in validMoves
    /\ hasCell(grid, to)
    /\ ~HasPiece(getCell(grid, to))
    /\ hasCell(grid, mid)
    /\ getCell(grid, mid).piece = Piece("disc", Opponent(currentPlayer))

\* A jump is available to the disc on hex: a piece on a neighbouring
\* coordinate with an empty tile behind it.
JumpAvailable(g, hex) ==
    \E j \in 1..6 :
        /\ hasCell(g, HexAdd(hex, HEX_DIRECTIONS[j]))
        /\ HasPiece(getCell(g, HexAdd(hex, HEX_DIRECTIONS[j])))
        /\ hasCell(g, TwoSteps(hex, j))
        /\ ~HasPiece(getCell(g, TwoSteps(hex, j)))

\* The step has moved the selected disc over mid onto to and captured the
\* disc on mid.
JumpedAndCaptured(mid, to) ==
    LET me == currentPlayer
        opp == Opponent(currentPlayer)
    IN  /\ pc' = "ready"
        /\ ~HasPiece(getCell(grid', mid))
        /\ getCell(grid', to).piece = Piece("disc", me)
        /\ ~HasPiece(getCell(grid', selectedHex))
        /\ \A h \in getAllCells(grid) \ {mid, to, selectedHex} :
              getCell(grid', h) = getCell(grid, h)
        /\ getAllCells(grid') = getAllCells(grid)
        /\ players'[me].discs.captured = players[me].discs.captured + 1
        /\ players'[opp].discs.total = players[opp].discs.total - 1
        /\ canContinueJumping' <=> JumpAvailable(grid', to)
        /\ canContinueJumping' => lastJumpedPiece' = to /\ currentPlayer' = me

\* C25: simple jump capture.  When a disc makes a single straight jump over
\* an adjacent opponent disc onto an empty tile, that opponent disc is
\* removed, the mover's discs.captured increases by 1, the opponent's
\* discs.total decreases by 1, the disc ends on the landing tile with the
\* source tile empty, and a continuation is pending afterwards if and only
\* if at least one further jump is available from the landing tile.
C25_SimpleJumpCapture ==
    [][ \A i \in 1..6 :
          ( /\ SimpleJumpOver(HexAdd(selectedHex, HEX_DIRECTIONS[i]),
                              TwoSteps(selectedHex, i))
            /\ State' = selectHex(State, TwoSteps(selectedHex, i)) )
          => JumpedAndCaptured(HexAdd(selectedHex, HEX_DIRECTIONS[i]),
                               TwoSteps(selectedHex, i)) ]_vars

\* White's disc has jumped from (0,1) over the black disc on (0,0) to
\* (0,-1), from where it can jump on.
C25_JumpedWithContinuation ==
    /\ hasCell(grid, Hex(0, -1))
    /\ getCell(grid, Hex(0, -1)).piece = Piece("disc", "white")
    /\ getCell(grid, Hex(0, 0)).piece = NullPiece
    /\ getCell(grid, Hex(0, 1)).piece = NullPiece
    /\ players.white.discs.captured = 1
    /\ players.black.discs.total = 5
    /\ canContinueJumping
    /\ lastJumpedPiece = Hex(0, -1)
    /\ JumpAvailable(grid, Hex(0, -1))

\* The selected ring of the player to move has the legal destination to,
\* which holds a piece of the opponent.
RingLandsOn(to) ==
    /\ ~gameOver
    /\ pc = "ready"
    /\ selectedAction = "movePiece"
    /\ selectedHex # NoHex
    /\ getCell(grid, selectedHex).piece = Piece("ring", currentPlayer)
    /\ to \in validMoves
    /\ HoldsPieceOf(grid, to, Opponent(currentPlayer))

PoolOf(type) == IF type = "disc" THEN "discs" ELSE "rings"

\* The step has moved the selected ring onto to and captured the piece
\* there, and nothing else; the turn has ended.
LandedAndCaptured(to) ==
    LET me == currentPlayer
        opp == Opponent(currentPlayer)
        pool == PoolOf(getCell(grid, to).piece.type)
        other == CHOOSE p \in {"discs", "rings"} : p # pool
    IN  /\ getCell(grid', to).piece = Piece("ring", me)
        /\ ~HasPiece(getCell(grid', selectedHex))
        /\ getAllCells(grid') = getAllCells(grid)
        /\ \A h \in getAllCells(grid) \ {to, selectedHex} :
              getCell(grid', h) = getCell(grid, h)
        /\ players'[me][pool].captured = players[me][pool].captured + 1
        /\ players'[opp][pool].total = players[opp][pool].total - 1
        /\ players'[me][other] = players[me][other]
        /\ players'[opp][other] = players[opp][other]
        /\ players'[me][pool].total = players[me][pool].total
        /\ players'[opp][pool].captured = players[opp][pool].captured
        /\ ~canContinueJumping'
        /\ lastJumpedPiece' = NoHex
        /\ TurnEnds

\* C26: ring capture.  When a ring moves onto a destination holding an
\* opponent piece, exactly that piece is removed (replaced by the ring),
\* the mover's captured counter for that piece type increases by 1 and the
\* opponent's total for that type decreases by 1, the piece on the
\* intermediate coordinate (if any) is untouched, and the turn always ends:
\* no continuation is pending afterwards.
C26_RingCapture ==
    [][ \A to \in validMoves :
          (RingLandsOn(to) /\ State' = selectHex(State, to))
             => LandedAndCaptured(to) ]_vars

\* The black ring has moved from (-1,0) onto the white disc at (-1,2) and
\* captured it; the white disc placed on the coordinate between, (-1,1),
\* stands.
C26_DiscTakenByRing ==
    /\ hasCell(grid, Hex(-1, 2))
    /\ getCell(grid, Hex(-1, 2)).piece = Piece("ring", "black")
    /\ hasCell(grid, Hex(-1, 0))
    /\ getCell(grid, Hex(-1, 0)).piece = NullPiece
    /\ getCell(grid, Hex(-1, 1)).piece = Piece("disc", "white")
    /\ players.black.discs.captured = 1
    /\ players.white.discs.total = AfterRingGame.players.white.discs.total - 1
    /\ ~canContinueJumping

\* C27: the position signature is a function of board content and player
\* only.  A state that has the tile colours, the pieces and the player to
\* move of the opening position has the signature of the opening position,
\* whatever moves led to it.
C27_SignatureOfContent ==
    (/\ Content(getPositionKey(State)) = Content(InitialKey)
     /\ currentPlayer = NewGameState.currentPlayer)
        => getPositionKey(State) = InitialKey

\* The coordinates of the tiles of colour c on a grid.
TilesOf(g, c) == { h \in getAllCells(g) : getCell(g, h).color = c }

\* C28: tile bookkeeping.  In every state each colour has as many tiles on
\* the board as its tiles.placed says, and at most nine; and in every step
\* other than the start of a new game every tile stays where it is with its
\* colour, and a tile that appears has the colour of the player who was to
\* move.
C28_TileBookkeeping ==
    /\ [](\A c \in Colors :
            /\ Cardinality(TilesOf(grid, c)) = players[c].tiles.placed
            /\ players[c].tiles.placed <= 9)
    /\ [][ State' # initializeGame(State) =>
             /\ \A h \in getAllCells(grid) :
                    /\ hasCell(grid', h)
                    /\ getCell(grid', h).color = getCell(grid, h).color
             /\ \A h \in getAllCells(grid') \ getAllCells(grid) :
                    getCell(grid', h).color = currentPlayer ]_vars

\* White has placed a tile on the board on which black has all nine of its
\* tiles.
C28_TilePlacedBesideNine ==
    /\ players.black.tiles.placed = 9
    /\ players.white.tiles.placed = AfterFullBoardGame.players.white.tiles.placed + 1
    /\ Cardinality(TilesOf(grid, "black")) = 9
    /\ Cardinality(TilesOf(grid, "white")) = players.white.tiles.placed
    /\ getAllCells(AfterFullBoardGame.grid) \subseteq getAllCells(grid)

\* The coordinates up to two steps away from a tile of the grid.
NearHexes(g) == ClickHexes(g) \cup UNION { getNeighborHexes(h) : h \in ClickHexes(g) }

ValidTilePositions(g) == { h \in NearHexes(g) : isValidTilePlacement(g, h) }

\* C29: on every board, for either colour, getValidTilePlacements returns
\* exactly the coordinates for which isValidTilePlacement is true, each of
\* them once, and returns the same for black as for white.
C29_ValidTilePlacementsExact ==
    /\ \A c \in Colors :
         LET placements == getValidTilePlacementsArray(grid, c)
         IN  /\ { placements[i] : i \in DOMAIN placements } = ValidTilePositions(grid)
             /\ \A i, j \in DOMAIN placements :
                    placements[i] = placements[j] => i = j
             /\ getValidTilePlacements(grid, c) = ValidTilePositions(grid)
    /\ getValidTilePlacementsArray(grid, "black")
         = getValidTilePlacementsArray(grid, "white")
    /\ getValidTilePlacements(grid, "black") = getValidTilePlacements(grid, "white")

\* A board of seven tiles around which some coordinates touch one tile only
\* (and are left out) and some touch several tiles (and are listed once).
C29_SevenTileBoard ==
    /\ Cardinality(getAllCells(grid)) = 7
    /\ \E h \in ClickHexes(grid) :
          /\ ~hasCell(grid, h)
          /\ ~isValidTilePlacement(grid, h)
    /\ \E h \in ValidTilePositions(grid) :
          Cardinality({ n \in getNeighborHexes(h) : hasCell(grid, n) }) >= 3
    /\ Len(getValidTilePlacementsArray(grid, currentPlayer)) >= 6

\* The sum of the repetition counts of the positions in keys.
RECURSIVE SumOfCounts(_, _)
SumOfCounts(counts, keys) ==
    IF keys = {} THEN 0
    ELSE LET key == CHOOSE k \in keys : TRUE
         IN  counts[key] + SumOfCounts(counts, keys \ {key})

\* The step completes a turn: the move passes to the other player or the
\* game ends.
TurnCompleted ==
    \/ currentPlayer' # currentPlayer
    \/ gameOver' /\ ~gameOver

\* C30: the history is append-only and per turn.  In every state the
\* repetition counts add up to the length of the history.  In every step
\* other than the start of a new game the history keeps its entries and
\* gains one entry when the step completes a turn and none otherwise; in
\* particular a selectAction call, and a jump after which a further jump is
\* pending, add nothing.
C30_HistoryPerTurn ==
    /\ [](SumOfCounts(positionCounts, DOMAIN positionCounts) = Len(history))
    /\ [][ State' # initializeGame(State) =>
             /\ Len(history') >= Len(history)
             /\ SubSeq(history', 1, Len(history)) = history
             /\ Len(history') = (IF TurnCompleted THEN Len(history) + 1
                                                  ELSE Len(history))
             /\ (\E action \in Actions : State' = selectAction(State, action))
                    => history' = history
             /\ (MoveStep /\ canContinueJumping') => history' = history ]_vars

\* A disc has jumped and captured and may jump on: the capture shows in the
\* resources, and the last entry of the history is still the one of the
\* turn before.
C30_JumpNotLogged ==
    /\ canContinueJumping
    /\ lastJumpedPiece # NoHex
    /\ Len(history) = Len(AfterJumpGame.history)
    /\ players # history[Len(history)].players
    /\ players[currentPlayer].discs.captured
         = history[Len(history)].players[currentPlayer].discs.captured + 1

\* The step is a reconstruction that succeeded: importGame or loadGame
\* returned true.  Only input whose players and currentPlayer the step has
\* taken over needs to be tried, since a successful call assigns both.
Restored(data) ==
    /\ data.parses
    /\ players' = data.players
    /\ currentPlayer' = data.currentPlayer

Reconstructed ==
    \E done \in { importGame(State, data) :
                    data \in { d \in ImportFiles : Restored(d) } }
                 \cup { loadGame(State, item) :
                          item \in { i \in StoredItems : Restored(i.data) } } :
        done.returns /\ State' = done.s

\* C31: a successful reconstruction resets the repetition tracking.  After
\* it the history holds one entry, the reconstructed position; that
\* position has the repetition count 1 and no other position is counted;
\* and no action, no source and no legal destination is selected.
C31_ReconstructionResetsTracking ==
    [][ Reconstructed =>
          /\ Len(history') = 1
          /\ history'[1] = [grid |-> getAllCells(grid'),
                            currentPlayer |-> currentPlayer',
                            players |-> players']
          /\ DOMAIN positionCounts' = { getPositionKey(State') }
          /\ positionCounts'[getPositionKey(State')] = 1
          /\ selectedAction' = NoAction
          /\ selectedHex' = NoHex
          /\ validMoves' = {} ]_vars

\* The saved game has been reconstructed: its position, which had occurred
\* twice when it was saved, is on the board and is counted once.
C31_SavedGameReconstructed ==
    /\ grid.cells = AfterShuffleGame.grid.cells
    /\ players = AfterShuffleGame.players
    /\ currentPlayer = AfterShuffleGame.currentPlayer
    /\ \E key \in DOMAIN AfterShuffleGame.positionCounts :
          /\ key.cells = grid.cells
          /\ AfterShuffleGame.positionCounts[key] = 2
    /\ Len(history) = 1
    /\ DOMAIN positionCounts = { getPositionKey(State) }

\* The engine state read back from the text exportGame writes for engine
\* state s, by an engine in state into.
RoundTrip(into, s) == importGame(into, exportGame(s))

\* What the round trip is to keep: every cell, the resources, the player to
\* move and the outcome.
SameGame(a, b) ==
    /\ a.grid.cells = b.grid.cells
    /\ a.players = b.players
    /\ a.currentPlayer = b.currentPlayer
    /\ a.gameOver = b.gameOver
    /\ a.winner = b.winner

\* C32: export/import round trip.  For every reachable engine state s the
\* text written by exportGame is accepted by importGame, on the same engine
\* and on a freshly constructed one, and the state after it has the cells,
\* the resources of both colours, the player to move and the outcome of s.
C32_ExportImportRoundTrip ==
    \A into \in { State, NewGameState } :
        \E done \in { RoundTrip(into, State) } :
            /\ done.returns
            /\ SameGame(done.s, State)

\* A finished game with a winner, captured discs and vacated tiles is
\* written and read back by a fresh engine.
C32_FinishedGameReadBack ==
    /\ gameOver
    /\ winner = "black"
    /\ players.black.discs.captured > 0
    /\ \E h \in getAllCells(grid) : getCell(grid, h).piece = NullPiece
    /\ RoundTrip(NewGameState, State).returns
    /\ RoundTrip(NewGameState, State).s.winner = "black"
    /\ RoundTrip(NewGameState, State).s.grid.cells = grid.cells

\* C33: completion of the model loading.  After loadGameModels() the
\* completion callback is invoked exactly once, and only when all six
\* loads have settled, whatever their order and whichever of them fail: it
\* is never invoked a second time, it is invoked in the step that settles
\* the last load and in no other, and once every load has settled it has
\* been invoked.
C33_CompletionOnce ==
    /\ [](/\ onCompleteCalls <= 1
          /\ onCompleteCalls = 1 => requests = {}
          /\ (pc # "page" /\ requests = {}) => onCompleteCalls = 1)
    /\ [][ onCompleteCalls' # onCompleteCalls =>
             /\ onCompleteCalls = 0
             /\ onCompleteCalls' = 1
             /\ requests # {}
             /\ requests' = {} ]_vars

\* All six loads have settled, three of them by failing, and the game has
\* been started.
C33_MixedLoadsSettled ==
    /\ requests = {}
    /\ modelLoader.loadedModels = 6
    /\ Cardinality(modelLoader.models) = 3
    /\ onCompleteCalls = 1
    /\ pc = "ready"

\* C34: newGame is a full reset.  From every state of a game, one with a
\* further jump pending included, initializeGame leaves the engine in the
\* state of a freshly constructed game: no continuation is pending and no
\* mid-chain piece is remembered.
C34_NewGameIsFullReset ==
    [][ State' = initializeGame(State) =>
          /\ State' = NewGameState
          /\ ~canContinueJumping'
          /\ lastJumpedPiece' = NoHex ]_vars

\* C35: a continuation is pending only for the disc that jumped.  In every
\* state in which canContinueJumping is true, the remembered coordinate
\* lastJumpedPiece is a tile that holds a disc of the player to move.
C35_ContinuationHoldsOwnDisc ==
    canContinueJumping =>
        /\ lastJumpedPiece # NoHex
        /\ hasCell(grid, lastJumpedPiece)
        /\ getCell(grid, lastJumpedPiece).piece = Piece("disc", currentPlayer)

\* C36: capture conservation.  In every state, for each colour, the discs
\* it has captured and the disc total of its opponent add up to 6, the
\* rings it has captured and the ring total of its opponent add up to 3,
\* and no captured counter and no total is negative.
C36_CaptureConservation ==
    \A c \in Colors :
        /\ players[c].discs.captured + players[Opponent(c)].discs.total = 6
        /\ players[c].rings.captured + players[Opponent(c)].rings.total = 3
        /\ players[c].discs.captured >= 0
        /\ players[c].rings.captured >= 0
        /\ \A pool \in Pools : players[c][pool].total >= 0

\* Both kinds of capture and a return have happened: white has captured a
\* ring, and black, which had captured a disc, has given it back for the
\* ring it placed.
C36_CapturedAndReturned ==
    /\ players.white.rings.captured = 1
    /\ players.black.rings.total = 2
    /\ players.black.rings.placed = 1
    /\ players.black.discs.captured = 0
    /\ players.white.discs.total = 6
    /\ players.white.discs.captured + players.black.discs.total = 6

\* C37: game over is terminal.  Once the game is over, by a win or by a
\* draw, no selectAction call and no selectHex call changes anything of the
\* engine state, and a step that leaves a finished game is the start of a
\* new game.
C37_GameOverIsTerminal ==
    /\ [](gameOver =>
            /\ \A action \in Actions : selectAction(State, action) = State
            /\ \A hex \in ClickHexes(grid) : selectHex(State, hex) = State)
    /\ [][ gameOver =>
             \/ State' = State
             \/ State' = initializeGame(State) ]_vars

\* The game has ended in a draw by threefold repetition.
C37_DrawnGame ==
    /\ gameOver
    /\ winner = NoWinner
    /\ message = "draw: threefold repetition"
    /\ Len(history) = Len(AfterRepetitionGame.history) + 1

\* The coordinates that hold a piece of colour c.
PiecesOn(g, c) == { h \in getAllCells(g) : HoldsPieceOf(g, h, c) }

\* C38: only the pieces of the player to move are moved and only pieces of
\* the opponent are removed.  In every accepted move the selected piece has
\* the colour of the player to move, every other coordinate whose piece
\* goes or is replaced held a piece of the opponent, and the player to move
\* has as many pieces on the board after the move as before.
C38_OwnPiecesMoveOthersFall ==
    [][ MoveStep =>
          /\ HoldsPieceOf(grid, selectedHex, currentPlayer)
          /\ \A h \in getAllCells(grid) \ {selectedHex} :
                (/\ HasPiece(getCell(grid, h))
                 /\ getCell(grid', h).piece # getCell(grid, h).piece)
                    => getCell(grid, h).piece.color = Opponent(currentPlayer)
          /\ Cardinality(PiecesOn(grid', currentPlayer))
                = Cardinality(PiecesOn(grid, currentPlayer)) ]_vars

\* Black's disc has made a sixth capturing jump: white has a piece less on
\* the board than after the fifth, and black has as many as before.
C38_SixthCapture ==
    /\ players.black.discs.captured
         = AfterFiveCapturesGame.players.black.discs.captured + 1
    /\ Cardinality(PiecesOn(grid, "white"))
         = Cardinality(PiecesOn(AfterFiveCapturesGame.grid, "white")) - 1
    /\ Cardinality(PiecesOn(grid, "black"))
         = Cardinality(PiecesOn(AfterFiveCapturesGame.grid, "black"))
    /\ getAllCells(grid) = getAllCells(AfterFiveCapturesGame.grid)

====
